---------------------------- MODULE Spec2Model ----------------------------
(***************************************************************************)
(* The AI Compliance Auditor workflow                                      *)
(* (src/src/step-functions/ai-compliance-workflow.json), a state machine   *)
(* written in the Amazon States Language and run by AWS Step Functions     *)
(* (src/src/ai-compliance-auditor-stack.ts, createStepFunctionsWorkflow).  *)
(*                                                                         *)
(* The workflow's states are transcribed as data (Type, Parameters,        *)
(* ResultPath, Retry, Catch, Next/End, Branches); the actions interpret    *)
(* that data the way the States Language prescribes: a path reference of a *)
(* Parameters template or of a Choice Variable that does not resolve       *)
(* raises States.Runtime, which no Retry or Catch rule matches (States.ALL *)
(* does not cover it); a Catch rule without ResultPath replaces the whole  *)
(* Document by the error output; MaxAttempts counts retries, not calls.    *)
(***************************************************************************)
EXTENDS Integers, Sequences, FiniteSets, TLC

(***************************************************************************)
(* Bounds of the model.                                                    *)
(***************************************************************************)
\* Number of distinct requests (input documents) the model draws from.
NumRequests == 1

(***************************************************************************)
(* JSON values.  Every value carries a type tag; the payload field has a   *)
(* different name per type.                                                *)
(***************************************************************************)
Str(s) == [t |-> "str", s |-> s]
Num(n) == [t |-> "num", n |-> n]
Bool(b) == [t |-> "bool", b |-> b]
Obj(o) == [t |-> "obj", o |-> o]
Arr(a) == [t |-> "arr", a |-> a]
\* The result of looking up a path that is not in the Document.
Absent == [t |-> "absent"]

IsPresent(v) == v.t # "absent"

(***************************************************************************)
(* Paths.  "$.a[0].b" is <<"a", "[0]", "b">>; "$" is <<>>.                 *)
(***************************************************************************)
IsIndex(step) == step \in {"[0]", "[1]"}
IndexOf(step) == IF step = "[0]" THEN 1 ELSE 2

RECURSIVE Get(_, _)
Get(v, p) ==
    IF Len(p) = 0 THEN v
    ELSE LET h == Head(p) IN
         IF IsIndex(h)
         THEN IF v.t = "arr" /\ IndexOf(h) \in DOMAIN v.a
              THEN Get(v.a[IndexOf(h)], Tail(p))
              ELSE Absent
         ELSE IF v.t = "obj" /\ h \in DOMAIN v.o
              THEN Get(v.o[h], Tail(p))
              ELSE Absent

Fields(v) == IF v.t = "obj" THEN DOMAIN v.o ELSE {}

\* ResultPath processing: the value is inserted at the path, the sibling
\* fields of the base are kept; the empty path replaces the base.
RECURSIVE Merge(_, _, _)
Merge(base, p, value) ==
    IF Len(p) = 0 THEN value
    ELSE LET h == Head(p)
             sub == IF h \in Fields(base) THEN base.o[h] ELSE Absent
         IN  Obj([k \in Fields(base) \cup {h} |->
                    IF k = h THEN Merge(sub, Tail(p), value) ELSE base.o[k]])

(***************************************************************************)
(* Parameters templates: a literal, a path reference into the Document     *)
(* ("name.$": "$.path"), a reference into the context object               *)
(* ("name.$": "$$.path"), an object or an array of templates.              *)
(***************************************************************************)
Lit(v) == [k |-> "lit", v |-> v]
Ref(p) == [k |-> "ref", p |-> p]
Ctx(n) == [k |-> "ctx", n |-> n]
TObj(f) == [k |-> "tobj", f |-> f]
TArr(s) == [k |-> "tarr", s |-> s]

RECURSIVE Resolvable(_, _)
Resolvable(tpl, doc) ==
    CASE tpl.k = "ref" -> IsPresent(Get(doc, tpl.p))
      [] tpl.k = "tobj" -> \A n \in DOMAIN tpl.f : Resolvable(tpl.f[n], doc)
      [] tpl.k = "tarr" -> \A i \in DOMAIN tpl.s : Resolvable(tpl.s[i], doc)
      [] OTHER -> TRUE

RECURSIVE Resolve(_, _, _)
Resolve(tpl, doc, cx) ==
    CASE tpl.k = "lit" -> tpl.v
      [] tpl.k = "ref" -> Get(doc, tpl.p)
      [] tpl.k = "ctx" -> cx[tpl.n]
      [] tpl.k = "tobj" -> Obj([n \in DOMAIN tpl.f |-> Resolve(tpl.f[n], doc, cx)])
      [] tpl.k = "tarr" -> Arr([i \in DOMAIN tpl.s |-> Resolve(tpl.s[i], doc, cx)])

(***************************************************************************)
(* The workflow definition, state by state.                                *)
(***************************************************************************)
StartAt == "ValidateInput"

\* The error classes the Retry rule of every Task state lists.
LambdaTransient ==
    {"Lambda.ServiceException", "Lambda.AWSLambdaException", "Lambda.SdkClientException"}

\* Faulty variant: the review id is taken from the context object, not the input.
ValidateInputReviewIdFromContext == Ctx("Execution.Name")

\* "review_id.$": "$.review_id"
ValidateInputReviewId == Ref(<<"review_id">>)

\* Faulty variant: product_id is read from the input's user_id.
ValidateInputProductFromUser ==
    [Type |-> "Pass",
     Parameters |-> TObj([
        review_id |-> ValidateInputReviewId,
        product_id |-> Ref(<<"user_id">>),
        user_id |-> Ref(<<"user_id">>),
        content |-> Ref(<<"content">>),
        rating |-> Ref(<<"rating">>),
        region |-> Ref(<<"region">>),
        product_category |-> Ref(<<"product_category">>),
        compliance_mode |-> Ref(<<"compliance_mode">>),
        timestamp |-> Ctx("State.EnteredTime"),
        execution_id |-> Ctx("Execution.Name")]),
     Next |-> "ProcessReview"]

ValidateInput ==
    [Type |-> "Pass",
     Parameters |-> TObj([
        review_id |-> ValidateInputReviewId,
        product_id |-> Ref(<<"product_id">>),
        user_id |-> Ref(<<"user_id">>),
        content |-> Ref(<<"content">>),
        rating |-> Ref(<<"rating">>),
        region |-> Ref(<<"region">>),
        product_category |-> Ref(<<"product_category">>),
        compliance_mode |-> Ref(<<"compliance_mode">>),
        timestamp |-> Ctx("State.EnteredTime"),
        execution_id |-> Ctx("Execution.Name")]),
     Next |-> "ProcessReview"]

\* Faulty variant: one retry fewer.
ReviewAnalysisRetryTwice ==
    <<[ErrorEquals |-> LambdaTransient,
       IntervalSeconds |-> 2, MaxAttempts |-> 2, BackoffRate |-> 2]>>

ReviewAnalysisRetry ==
    <<[ErrorEquals |-> LambdaTransient,
       IntervalSeconds |-> 2, MaxAttempts |-> 3, BackoffRate |-> 2]>>

\* Faulty variant: the Catch rule names a state of another scope.
ReviewAnalysisCatchToPolicyError ==
    <<[ErrorEquals |-> {"States.ALL"}, Next |-> "PolicyError",
       ResultPath |-> <<"error">>]>>

ReviewAnalysisCatch ==
    <<[ErrorEquals |-> {"States.ALL"}, Next |-> "AnalysisError",
       ResultPath |-> <<"error">>]>>

ReviewAnalysis ==
    [Type |-> "Task",
     Parameters |-> TObj([
        FunctionName |-> Lit(Str("ai-compliance-review-auditor")),
        Payload |-> TObj([
            review_id |-> Ref(<<"review_id">>),
            content |-> Ref(<<"content">>),
            product_id |-> Ref(<<"product_id">>),
            user_id |-> Ref(<<"user_id">>),
            region |-> Ref(<<"region">>),
            product_category |-> Ref(<<"product_category">>)])]),
     ResultPath |-> <<"analysis_result">>,
     Retry |-> ReviewAnalysisRetry,
     Catch |-> ReviewAnalysisCatch,
     End |-> TRUE]

AnalysisError ==
    [Type |-> "Pass",
     Parameters |-> TObj([
        error_type |-> Lit(Str("ANALYSIS_FAILED")),
        error_message |-> Ref(<<"error", "Cause">>),
        analysis_result |-> Lit(Obj([
            statusCode |-> Num(500),
            analysis |-> Obj([
                toxicity_score |-> Num(10),
                bias_score |-> Num(10),
                hallucination_score |-> Num(10),
                explanations |-> Obj([
                    toxicity |-> Str("Analysis failed - defaulting to high risk"),
                    bias |-> Str("Analysis failed - defaulting to high risk"),
                    hallucination |-> Str("Analysis failed - defaulting to high risk")])])]))]),
     ResultPath |-> <<"analysis_result">>,
     End |-> TRUE]

\* Faulty variant: the analysis stage is followed by the approved fan-out,
\* the policy stage left out.
ProcessReviewSkipsPolicy ==
    [Type |-> "Parallel",
     Branches |-> <<[StartAt |-> "ReviewAnalysis",
                     States |-> {"ReviewAnalysis", "AnalysisError"}]>>,
     Next |-> "ContentApproved",
     ResultPath |-> <<"parallel_results">>]

ProcessReview ==
    [Type |-> "Parallel",
     Branches |-> <<[StartAt |-> "ReviewAnalysis",
                     States |-> {"ReviewAnalysis", "AnalysisError"}]>>,
     Next |-> "PolicyValidation",
     ResultPath |-> <<"parallel_results">>]

AnalysisPath == <<"parallel_results", "[0]", "analysis_result", "Payload", "analysis">>

PolicyContext ==
    TObj([region |-> Ref(<<"region">>),
          product_category |-> Ref(<<"product_category">>),
          compliance_mode |-> Ref(<<"compliance_mode">>)])

PolicyValidationRetry ==
    <<[ErrorEquals |-> LambdaTransient,
       IntervalSeconds |-> 2, MaxAttempts |-> 3, BackoffRate |-> 2]>>

\* The Catch rule has no ResultPath: the error output replaces the Document.
PolicyValidationCatch ==
    <<[ErrorEquals |-> {"States.ALL"}, Next |-> "PolicyError"]>>

\* Faulty variant: no ResultPath, the result replaces the Document.
PolicyValidationNoResultPath == <<>>

PolicyValidationResultPath == <<"policy_result">>

PolicyValidation ==
    [Type |-> "Task",
     Parameters |-> TObj([
        FunctionName |-> Lit(Str("ai-compliance-policy-validator")),
        Payload |-> TObj([
            validation_type |-> Lit(Str("content")),
            analysis_result |-> Ref(AnalysisPath),
            policy_context |-> PolicyContext])]),
     ResultPath |-> PolicyValidationResultPath,
     Retry |-> PolicyValidationRetry,
     Catch |-> PolicyValidationCatch,
     Next |-> "CheckPolicyDecision"]

PolicyError ==
    [Type |-> "Pass",
     Parameters |-> TObj([
        policy_result |-> Lit(Obj([
            statusCode |-> Num(500),
            validation_result |-> Obj([
                decision |-> Str("DENY"),
                reasons |-> Arr(<<Str("SYSTEM_ERROR")>>),
                explanation |-> Str("Policy validation failed - defaulting to deny")])]))]),
     ResultPath |-> <<"policy_result">>,
     Next |-> "CheckPolicyDecision"]

DecisionPath == <<"policy_result", "Payload", "validation_result", "decision">>

\* Faulty variant: the rule compares with the wrong literal.
CheckPolicyDecisionChoicesDeny ==
    <<[Variable |-> DecisionPath, StringEquals |-> "DENY", Next |-> "ContentApproved"]>>

CheckPolicyDecisionChoices ==
    <<[Variable |-> DecisionPath, StringEquals |-> "ALLOW", Next |-> "ContentApproved"]>>

CheckPolicyDecision ==
    [Type |-> "Choice",
     Choices |-> CheckPolicyDecisionChoices,
     Default |-> "ContentRejected"]

GenerateSummaryRetry ==
    <<[ErrorEquals |-> LambdaTransient,
       IntervalSeconds |-> 2, MaxAttempts |-> 3, BackoffRate |-> 2]>>

\* The Catch rule has no ResultPath: the error output replaces the Document.
GenerateSummaryCatch ==
    <<[ErrorEquals |-> {"States.ALL"}, Next |-> "SummaryError"]>>

GenerateSummary ==
    [Type |-> "Task",
     Parameters |-> TObj([
        FunctionName |-> Lit(Str("ai-compliance-review-summarizer")),
        Payload |-> TObj([
            product_id |-> Ref(<<"product_id">>),
            reviews |-> TArr(<<TObj([
                review_id |-> Ref(<<"review_id">>),
                content |-> Ref(<<"content">>),
                rating |-> Ref(<<"rating">>),
                analysis_passed |-> Lit(Bool(TRUE)),
                toxicity_score |-> Ref(AnalysisPath \o <<"toxicity_score">>),
                bias_score |-> Ref(AnalysisPath \o <<"bias_score">>),
                hallucination_score |-> Ref(AnalysisPath \o <<"hallucination_score">>)])>>),
            policy_context |-> PolicyContext])]),
     ResultPath |-> <<"summary_result">>,
     Retry |-> GenerateSummaryRetry,
     Catch |-> GenerateSummaryCatch,
     End |-> TRUE]

SummaryError ==
    [Type |-> "Pass",
     Parameters |-> TObj([
        summary_result |-> Lit(Obj([
            statusCode |-> Num(500),
            summary |-> Str("Summary generation failed"),
            summary_metadata |-> Obj([
                reviews_processed |-> Num(1),
                reviews_included |-> Num(0),
                reviews_excluded |-> Num(1),
                exclusion_reasons |-> Arr(<<Str("SYSTEM_ERROR")>>)])]))]),
     ResultPath |-> <<"summary_result">>,
     End |-> TRUE]

\* Faulty variant: the audit event does not carry the policy decision.
AuditEventWithoutDecision(eventType) ==
    TObj([event_type |-> Lit(Str(eventType)),
          review_id |-> Ref(<<"review_id">>),
          user_id |-> Ref(<<"user_id">>),
          product_id |-> Ref(<<"product_id">>),
          region |-> Ref(<<"region">>),
          analysis_results |-> Ref(AnalysisPath),
          processing_duration_ms |-> Lit(Num(0))])

AuditEvent(eventType) ==
    TObj([event_type |-> Lit(Str(eventType)),
          review_id |-> Ref(<<"review_id">>),
          user_id |-> Ref(<<"user_id">>),
          product_id |-> Ref(<<"product_id">>),
          region |-> Ref(<<"region">>),
          analysis_results |-> Ref(AnalysisPath),
          policy_decision |-> Ref(<<"policy_result", "Payload", "validation_result">>),
          processing_duration_ms |-> Lit(Num(0))])

LogApprovedAuditRetry ==
    <<[ErrorEquals |-> LambdaTransient,
       IntervalSeconds |-> 1, MaxAttempts |-> 2, BackoffRate |-> 2]>>

\* Faulty variant: the Catch rule lists the retried classes only.
LogApprovedAuditCatchTransientOnly ==
    <<[ErrorEquals |-> LambdaTransient, ResultPath |-> <<"audit_error">>,
       Next |-> "AuditLogError"]>>

LogApprovedAuditCatch ==
    <<[ErrorEquals |-> {"States.ALL"}, ResultPath |-> <<"audit_error">>,
       Next |-> "AuditLogError"]>>

LogApprovedAudit ==
    [Type |-> "Task",
     Parameters |-> TObj([
        FunctionName |-> Lit(Str("ai-compliance-audit-logger")),
        Payload |-> TObj([audit_event |-> AuditEvent("ANALYSIS")])]),
     ResultPath |-> <<"audit_result">>,
     Retry |-> LogApprovedAuditRetry,
     Catch |-> LogApprovedAuditCatch,
     End |-> TRUE]

AuditLogError ==
    [Type |-> "Pass",
     Parameters |-> TObj([
        audit_result |-> Lit(Obj([
            statusCode |-> Num(500),
            events_processed |-> Num(0),
            events_failed |-> Num(1)]))]),
     ResultPath |-> <<"audit_result">>,
     End |-> TRUE]

\* No ResultPath: the array of branch outputs replaces the Document.
ContentApproved ==
    [Type |-> "Parallel",
     Branches |-> <<[StartAt |-> "GenerateSummary",
                     States |-> {"GenerateSummary", "SummaryError"}],
                    [StartAt |-> "LogApprovedAudit",
                     States |-> {"LogApprovedAudit", "AuditLogError"}]>>,
     Next |-> "SuccessResponse"]

ContentRejectedRetry ==
    <<[ErrorEquals |-> LambdaTransient,
       IntervalSeconds |-> 1, MaxAttempts |-> 2, BackoffRate |-> 2]>>

\* Faulty variant: the Catch rule without ResultPath, as those of PolicyValidation and
\* GenerateSummary.
ContentRejectedCatchNoResultPath ==
    <<[ErrorEquals |-> {"States.ALL"}, Next |-> "RejectedResponse"]>>

ContentRejectedCatch ==
    <<[ErrorEquals |-> {"States.ALL"}, ResultPath |-> <<"audit_error">>,
       Next |-> "RejectedResponse"]>>

ContentRejected ==
    [Type |-> "Task",
     Parameters |-> TObj([
        FunctionName |-> Lit(Str("ai-compliance-audit-logger")),
        Payload |-> TObj([audit_event |-> AuditEvent("POLICY_DECISION")])]),
     ResultPath |-> <<"audit_result">>,
     Retry |-> ContentRejectedRetry,
     Catch |-> ContentRejectedCatch,
     Next |-> "RejectedResponse"]

\* Faulty variant: the approved response is not the end, the rejected one
\* follows it.
SuccessResponseThenRejected ==
    [Type |-> "Pass",
     Parameters |-> TObj([
        statusCode |-> Lit(Num(200)),
        result |-> Lit(Str("SUCCESS")),
        review_id |-> Ref(<<"[0]", "review_id">>),
        product_id |-> Ref(<<"[0]", "product_id">>),
        policy_decision |-> Lit(Str("APPROVED")),
        analysis_summary |-> TObj([
            toxicity_score |-> Ref(<<"[0]">> \o AnalysisPath \o <<"toxicity_score">>),
            bias_score |-> Ref(<<"[0]">> \o AnalysisPath \o <<"bias_score">>),
            hallucination_score |->
                Ref(<<"[0]">> \o AnalysisPath \o <<"hallucination_score">>)]),
        policy_reasons |->
            Ref(<<"[0]", "policy_result", "Payload", "validation_result", "reasons">>),
        summary |-> Ref(<<"[0]", "summary_result", "Payload", "summary">>),
        processing_metadata |-> TObj([
            execution_id |-> Ref(<<"[0]", "execution_id">>),
            timestamp |-> Ref(<<"[0]", "timestamp">>),
            audit_logged |-> Lit(Bool(TRUE))])]),
     Next |-> "RejectedResponse"]

SuccessResponse ==
    [Type |-> "Pass",
     Parameters |-> TObj([
        statusCode |-> Lit(Num(200)),
        result |-> Lit(Str("SUCCESS")),
        review_id |-> Ref(<<"[0]", "review_id">>),
        product_id |-> Ref(<<"[0]", "product_id">>),
        policy_decision |-> Lit(Str("APPROVED")),
        analysis_summary |-> TObj([
            toxicity_score |-> Ref(<<"[0]">> \o AnalysisPath \o <<"toxicity_score">>),
            bias_score |-> Ref(<<"[0]">> \o AnalysisPath \o <<"bias_score">>),
            hallucination_score |->
                Ref(<<"[0]">> \o AnalysisPath \o <<"hallucination_score">>)]),
        policy_reasons |->
            Ref(<<"[0]", "policy_result", "Payload", "validation_result", "reasons">>),
        summary |-> Ref(<<"[0]", "summary_result", "Payload", "summary">>),
        processing_metadata |-> TObj([
            execution_id |-> Ref(<<"[0]", "execution_id">>),
            timestamp |-> Ref(<<"[0]", "timestamp">>),
            audit_logged |-> Lit(Bool(TRUE))])]),
     End |-> TRUE]

RejectedResponse ==
    [Type |-> "Pass",
     Parameters |-> TObj([
        statusCode |-> Lit(Num(200)),
        result |-> Lit(Str("REJECTED")),
        review_id |-> Ref(<<"review_id">>),
        product_id |-> Ref(<<"product_id">>),
        policy_decision |-> Lit(Str("DENIED")),
        analysis_summary |-> TObj([
            toxicity_score |-> Ref(AnalysisPath \o <<"toxicity_score">>),
            bias_score |-> Ref(AnalysisPath \o <<"bias_score">>),
            hallucination_score |-> Ref(AnalysisPath \o <<"hallucination_score">>)]),
        policy_reasons |->
            Ref(<<"policy_result", "Payload", "validation_result", "reasons">>),
        rejection_explanation |->
            Ref(<<"policy_result", "Payload", "validation_result", "explanation">>),
        processing_metadata |-> TObj([
            execution_id |-> Ref(<<"execution_id">>),
            timestamp |-> Ref(<<"timestamp">>),
            audit_logged |-> Lit(Bool(TRUE))])]),
     End |-> TRUE]

\* Every state of the workflow by name, the states of the branches included
\* (no name is used twice in the definition).
States ==
    [ValidateInput |-> ValidateInput,
     ProcessReview |-> ProcessReview,
     ReviewAnalysis |-> ReviewAnalysis,
     AnalysisError |-> AnalysisError,
     PolicyValidation |-> PolicyValidation,
     PolicyError |-> PolicyError,
     CheckPolicyDecision |-> CheckPolicyDecision,
     ContentApproved |-> ContentApproved,
     GenerateSummary |-> GenerateSummary,
     SummaryError |-> SummaryError,
     LogApprovedAudit |-> LogApprovedAudit,
     AuditLogError |-> AuditLogError,
     ContentRejected |-> ContentRejected,
     SuccessResponse |-> SuccessResponse,
     RejectedResponse |-> RejectedResponse]

StateNames == DOMAIN States
TaskStates == {n \in StateNames : States[n].Type = "Task"}

\* Defaults of the States Language for the fields a state leaves out.
IsEnd(st) == "End" \in DOMAIN st
ResultPathOf(st) == IF "ResultPath" \in DOMAIN st THEN st.ResultPath ELSE <<>>
RetryOf(st) == IF "Retry" \in DOMAIN st THEN st.Retry ELSE <<>>
CatchOf(st) == IF "Catch" \in DOMAIN st THEN st.Catch ELSE <<>>

ParallelStates == {n \in StateNames : States[n].Type = "Parallel"}

\* The states of the branches, and those of the top level.
BranchStates ==
    UNION {UNION {States[p].Branches[i].States : i \in DOMAIN States[p].Branches} :
           p \in ParallelStates}
TopLevelStates == StateNames \ BranchStates

\* The scopes of the definition: the top level and every branch, each with
\* the state it starts at.
Scopes ==
    {[StartAt |-> StartAt, States |-> TopLevelStates]} \cup
    UNION {{States[p].Branches[i] : i \in DOMAIN States[p].Branches} : p \in ParallelStates}

\* The edges of a state: its Next, the Next of its Choice rules and its
\* Default, and the Next of its Catch rules.
NextEdges(n) ==
    LET st == States[n]
    IN  (IF "Next" \in DOMAIN st THEN {st.Next} ELSE {}) \cup
        (IF "Default" \in DOMAIN st THEN {st.Default} ELSE {}) \cup
        (IF "Choices" \in DOMAIN st
         THEN {st.Choices[i].Next : i \in DOMAIN st.Choices} ELSE {})
CatchEdges(n) == {CatchOf(States[n])[i].Next : i \in DOMAIN CatchOf(States[n])}

\* The states that can be reached from the states in `seen`.
RECURSIVE ReachableFrom(_)
ReachableFrom(seen) ==
    LET more == seen \cup UNION {NextEdges(n) \cup CatchEdges(n) : n \in seen}
    IN  IF more = seen THEN seen ELSE ReachableFrom(more)

(***************************************************************************)
(* The submission boundary (the REST API): the request body and its model, *)
(* the mapping templates, the input document the StartExecution            *)
(* integration builds from a request, and the context object of the        *)
(* execution it starts.                                                    *)
(***************************************************************************)
RequestIds == <<"req-1", "req-2", "req-3", "req-4">>
ProductIds == <<"prod-A", "prod-B", "prod-C", "prod-D">>
ExecutionNames == <<"exec-1", "exec-2">>
Timestamps == <<"2025-01-01T00:00:00Z", "2025-01-01T00:10:00Z">>

\* A request body the model accepts (README, "Test Positive Review").
RequestBody(i) ==
    Obj([product_id |-> Str(ProductIds[i]),
         user_id |-> Str("user-1"),
         content |-> Str("Great product, works as described."),
         rating |-> Num(5),
         region |-> Str("us-east-1"),
         product_category |-> Str("electronics"),
         compliance_mode |-> Str("standard")])

\* Stands for a content of 5001 characters.
TooLongContent == "<a review of 5001 characters>"

Length(s) == IF s = TooLongContent THEN 5001 ELSE Len(s)

Without(b, f) == Obj([g \in DOMAIN b.o \ {f} |-> b.o[g]])
With(b, f, v) == Obj([g \in DOMAIN b.o \cup {f} |-> IF g = f THEN v ELSE b.o[g]])

\* Bodies that break the request model, one per rule of it.
InvalidBodies(i) ==
    LET b == RequestBody(i)
    IN  {Without(b, "product_id"), Without(b, "user_id"), Without(b, "content"),
         Without(b, "rating"),
         With(b, "content", Str("Short")), With(b, "content", Str(TooLongContent)),
         With(b, "rating", Num(0)), With(b, "rating", Num(6)),
         With(b, "region", Str("mars-1")),
         With(b, "product_category", Str("weapons")),
         With(b, "compliance_mode", Str("none"))}

Requests(i) ==
    {[id |-> RequestIds[i], body |-> b] : b \in {RequestBody(i)} \cup InvalidBodies(i)}

ReviewRequestModel ==
    [required |-> {"product_id", "user_id", "content", "rating"},
     properties |->
        [product_id |-> [type |-> "string", minLength |-> 1, maxLength |-> 100],
         user_id |-> [type |-> "string", minLength |-> 1, maxLength |-> 100],
         content |-> [type |-> "string", minLength |-> 10, maxLength |-> 5000],
         rating |-> [type |-> "integer", minimum |-> 1, maximum |-> 5],
         region |-> [type |-> "string",
                     enum |-> {"us-east-1", "us-west-2", "eu-west-1", "eu-central-1",
                               "ap-southeast-1"}],
         product_category |-> [type |-> "string",
                               enum |-> {"electronics", "clothing", "books", "toys",
                                         "health", "food", "other"}],
         compliance_mode |-> [type |-> "string", enum |-> {"mild", "standard", "strict"}]]]

\* Value v conforms to the schema sch of one property.
Conforms(v, sch) ==
    IF sch.type = "string"
    THEN /\ v.t = "str"
         /\ "minLength" \in DOMAIN sch => Length(v.s) >= sch.minLength
         /\ "maxLength" \in DOMAIN sch => Length(v.s) <= sch.maxLength
         /\ "enum" \in DOMAIN sch => v.s \in sch.enum
    ELSE /\ v.t = "num"
         /\ "minimum" \in DOMAIN sch => v.n >= sch.minimum
         /\ "maximum" \in DOMAIN sch => v.n <= sch.maximum

\* Faulty variant: only the presence of the required properties is checked.
ValidRequestBodyRequiredOnly(b) ==
    b.t = "obj" /\ ReviewRequestModel.required \subseteq DOMAIN b.o

\* The request validator (validateRequestBody) against the request model.
ValidRequestBody(b) ==
    /\ b.t = "obj"
    /\ ReviewRequestModel.required \subseteq DOMAIN b.o
    /\ \A f \in DOMAIN b.o \cap DOMAIN ReviewRequestModel.properties :
          Conforms(b.o[f], ReviewRequestModel.properties[f])

(***************************************************************************)
(* Mapping templates.  A field is a text, $input.path(..) of the body the  *)
(* template is applied to, or a reference to a template variable; a        *)
(* reference to a variable the template context does not define renders as *)
(* its own text.  Every field is written between quotes, so it renders as  *)
(* a string: a number as its digits, a missing value as the empty string.  *)
(***************************************************************************)
VText(s) == [k |-> "text", s |-> s]
VInputPath(p) == [k |-> "path", p |-> p]
VReference(name) == [k |-> "ref", name |-> name]

\* The JSON text of a document (Step Functions hands input and output over
\* as JSON text).
JsonText(doc) == [t |-> "json", of |-> doc]

Rendered(v) ==
    CASE v.t = "str" -> v
      [] v.t = "num" -> Str(ToString(v.n))
      [] v.t = "absent" -> Str("")
      [] OTHER -> v

RenderField(tf, body, cx) ==
    CASE tf.k = "text" -> Str(tf.s)
      [] tf.k = "path" -> Rendered(Get(body, tf.p))
      [] tf.k = "ref" -> IF tf.name \in DOMAIN cx THEN Str(cx[tf.name])
                         ELSE Str("$" \o tf.name)

Render(tpl, body, cx) == Obj([f \in DOMAIN tpl |-> RenderField(tpl[f], body, cx)])

\* $context of a request, as far as the templates use it.
RequestContext(id) ==
    ("context.requestId" :> id) @@
    ("context.identity.sourceIp" :> "203.0.113.7") @@
    ("context.identity.userAgent" :> "curl")

StartExecutionInputTemplate ==
    [review_id |-> VReference("context.requestId"),
     product_id |-> VInputPath(<<"product_id">>),
     user_id |-> VInputPath(<<"user_id">>),
     content |-> VInputPath(<<"content">>),
     rating |-> VInputPath(<<"rating">>),
     region |-> VInputPath(<<"region">>),
     product_category |-> VInputPath(<<"product_category">>),
     compliance_mode |-> VInputPath(<<"compliance_mode">>),
     api_request_id |-> VReference("context.requestId"),
     source_ip |-> VReference("context.identity.sourceIp"),
     user_agent |-> VReference("context.identity.userAgent")]

\* The input document of the execution started for request r.
StartExecutionInput(r) == Render(StartExecutionInputTemplate, r.body, RequestContext(r.id))

ContextObject(e) ==
    ("Execution.Name" :> Str(ExecutionNames[e])) @@
    ("State.EnteredTime" :> Str(Timestamps[e]))

ExecutionArn(e) ==
    "arn:aws:states:us-east-1:123456789012:execution:ai-compliance-auditor-workflow:"
        \o ExecutionNames[e]

\* What Step Functions answers to StartExecution: it does not wait for the
\* execution.
StartExecutionOutput(e) ==
    Obj([executionArn |-> Str(ExecutionArn(e)), startDate |-> Str(Timestamps[e])])

StartExecutionResponseTemplate ==
    [message |-> VText("Review submitted for processing"),
     execution_arn |-> VInputPath(<<"executionArn">>),
     request_id |-> VReference("context.requestId"),
     status |-> VText("PROCESSING")]

\* An answer of the API: the HTTP status code and the body.
Answer(code, body) == [statusCode |-> code, body |-> body]
NoAnswer == Answer(0, Absent)

\* The answer to an accepted submission.
SubmissionAccepted(e, r) ==
    Answer(200, Render(StartExecutionResponseTemplate, StartExecutionOutput(e),
                       RequestContext(r.id)))

\* The answer of the request validator to a body that breaks the model.
BadRequestBody == Answer(400, Obj([message |-> Str("Invalid request body")]))

(***************************************************************************)
(* The Task Invoker: the four Lambda functions.  An invocation returns the *)
(* Lambda invoke result (the function's response under Payload) or fails   *)
(* with a classified error.                                                *)
(***************************************************************************)
\* The failures the model's invoker returns: two of the classes the Retry rules
\* list and one they do not.
ErrorClasses == {"Lambda.ServiceException", "Lambda.SdkClientException", "Lambda.Unknown"}

ErrorOutput(class, message) == Obj([Error |-> Str(class), Cause |-> Str(message)])

TaskError(class) ==
    ErrorOutput(class,
        IF class \in LambdaTransient THEN "service unavailable" ELSE "function failed")

\* A path reference that does not resolve.
RuntimeError ==
    ErrorOutput("States.Runtime", "The JSONPath could not be found in the input")

LambdaResult(payload) ==
    Obj([ExecutedVersion |-> Str("$LATEST"), Payload |-> payload, StatusCode |-> Num(200)])

Analysis(tox, bias, hall) ==
    Obj([statusCode |-> Num(200),
         analysis |-> Obj([toxicity_score |-> Num(tox), bias_score |-> Num(bias),
                           hallucination_score |-> Num(hall)])])

LowRisk == Analysis(1, 1, 2)
HighRisk == Analysis(9, 8, 7)

Validation(decision, reasons, explanation) ==
    Obj([statusCode |-> Num(200),
         validation_result |-> Obj([decision |-> Str(decision), reasons |-> Arr(reasons),
                                    explanation |-> Str(explanation)])])

FunctionPayloads(fn) ==
    CASE fn = "ai-compliance-review-auditor" -> {LowRisk, HighRisk}
      [] fn = "ai-compliance-policy-validator" ->
            {Validation("ALLOW", <<>>, "Content meets policy"),
             Validation("DENY", <<Str("TOXICITY_THRESHOLD_EXCEEDED")>>,
                        "Content rejected based on standard compliance mode"),
             Validation("REVIEW", <<Str("MANUAL_REVIEW")>>, "Needs review")}
      [] fn = "ai-compliance-review-summarizer" ->
            {Obj([statusCode |-> Num(200), summary |-> Str("Customers like the product")])}
      [] fn = "ai-compliance-audit-logger" ->
            {Obj([statusCode |-> Num(200), events_processed |-> Num(1),
                  events_failed |-> Num(0)])}

Functions ==
    {"ai-compliance-review-auditor", "ai-compliance-policy-validator",
     "ai-compliance-review-summarizer", "ai-compliance-audit-logger"}

Success(result) == [ok |-> TRUE, result |-> result, error |-> Absent]
Failure(error) == [ok |-> FALSE, result |-> Absent, error |-> error]

Outcomes(fn) ==
    {Success(LambdaResult(p)) : p \in FunctionPayloads(fn)} \cup
    {Failure(TaskError(c)) : c \in ErrorClasses}

\* A deterministic stub answers every invocation of a function the same way.
StubPlans ==
    {[mode |-> "fixed",
      plan |-> ("ai-compliance-review-auditor" :> a) @@
               ("ai-compliance-policy-validator" :> v) @@
               ("ai-compliance-review-summarizer" :> s) @@
               ("ai-compliance-audit-logger" :> l)] :
        a \in Outcomes("ai-compliance-review-auditor"),
        v \in Outcomes("ai-compliance-policy-validator"),
        s \in Outcomes("ai-compliance-review-summarizer"),
        l \in Outcomes("ai-compliance-audit-logger")}

\* The stub plans concurrent executions are run against: every function
\* answers or fails, the analysis and the audit logger also with a class that
\* is retried.
ConcurrentPlans ==
    {p \in StubPlans :
        /\ p.plan["ai-compliance-review-auditor"] \in
              {Success(LambdaResult(LowRisk)),
               Failure(TaskError("Lambda.ServiceException")),
               Failure(TaskError("Lambda.Unknown"))}
        /\ p.plan["ai-compliance-policy-validator"].ok
              => Get(p.plan["ai-compliance-policy-validator"].result,
                     <<"Payload", "validation_result", "decision">>) # Str("REVIEW")
        /\ p.plan["ai-compliance-policy-validator"].ok
              \/ p.plan["ai-compliance-policy-validator"].error = TaskError("Lambda.Unknown")
        /\ p.plan["ai-compliance-review-summarizer"].ok
              \/ p.plan["ai-compliance-review-summarizer"].error = TaskError("Lambda.Unknown")
        /\ p.plan["ai-compliance-audit-logger"].ok
              \/ p.plan["ai-compliance-audit-logger"].error
                    = TaskError("Lambda.ServiceException")}

\* No stub: every invocation may return any of the function's outcomes.
Live == [mode |-> "live"]

(***************************************************************************)
(* Time.  The state machine is created with a timeout of 15 minutes; each  *)
(* Lambda function has its own timeout, the longest one invocation lasts.  *)
(***************************************************************************)
\* timeout: cdk.Duration.minutes(15)
TimeoutSeconds == 15 * 60

FunctionTimeoutSeconds(fn) ==
    CASE fn = "ai-compliance-review-auditor" -> 5 * 60
      [] fn = "ai-compliance-policy-validator" -> 2 * 60
      [] fn = "ai-compliance-review-summarizer" -> 5 * 60
      [] fn = "ai-compliance-audit-logger" -> 3 * 60

\* The execution ran out of time.
TimeoutError == ErrorOutput("States.Timeout", "Execution timed out")

(***************************************************************************)
(* State.                                                                  *)
(***************************************************************************)
VARIABLES
    request,    \* request[e]: the request (its id and body) submitted for execution e
    answer,     \* answer[e]: what the API answered to that submission
    replayOf,   \* replayOf[e]: the execution e replays (starts after), 0 if none
    stub,       \* the Task Invoker: Live, or a deterministic stub plan
    exec,       \* exec[e][t]: thread t of execution e (0: top level; else a branch)
    calls,      \* calls[e][s]: number of invocations Task state s has made
    waits,      \* waits[e][s]: the retry waits (seconds) of Task state s, in order
    sent,       \* sent[e][s]: the payload of the last invocation of Task state s
    reply,      \* reply[e][s]: what the last invocation of Task state s returned
    finished    \* finished[e]: the branch threads in the order they ran to their end

vars == <<request, answer, replayOf, stub, exec, calls, waits, sent, reply, finished>>

Executions == DOMAIN exec

Main == 0
\* The threads that run the branches of each Parallel state.
BranchThreads == [ProcessReview |-> <<1>>, ContentApproved |-> <<2, 3>>]
Threads == {Main} \cup UNION {{BranchThreads[p][i] : i \in DOMAIN BranchThreads[p]} :
                              p \in DOMAIN BranchThreads}

\* The states thread t moves among: the top level, or the branch it runs.
ScopeOf(t) ==
    IF t = Main THEN TopLevelStates
    ELSE LET p == CHOOSE q \in DOMAIN BranchThreads :
                    \E i \in DOMAIN BranchThreads[q] : BranchThreads[q][i] = t
             i == CHOOSE j \in DOMAIN BranchThreads[p] : BranchThreads[p][j] = t
         IN  States[p].Branches[i].States

Terminal == {"Succeeded", "Failed", "TimedOut", "Cancelled"}

NoAttempts(name) == [i \in DOMAIN RetryOf(States[name]) |-> 0]

\* Before the first invocation of a Task state.
NoReply == [ok |-> FALSE, result |-> Absent, error |-> Absent]

NewThread ==
    [status |-> "Pending", current |-> "", doc |-> Absent, attempts |-> <<>>,
     waiting |-> FALSE, cause |-> Absent]

InitExec(E) ==
    /\ answer = [e \in E |-> NoAnswer]
    /\ exec = [e \in E |-> [t \in Threads |-> NewThread]]
    /\ calls = [e \in E |-> [s \in TaskStates |-> 0]]
    /\ waits = [e \in E |-> [s \in TaskStates |-> <<>>]]
    /\ sent = [e \in E |-> [s \in TaskStates |-> Absent]]
    /\ reply = [e \in E |-> [s \in TaskStates |-> NoReply]]
    /\ finished = [e \in E |-> <<>>]

\* One submission of one request, the Lambda functions answering as they may.
Init ==
    /\ \E i \in 1..NumRequests : \E r \in Requests(i) : request = [e \in {1} |-> r]
    /\ replayOf = [e \in {1} |-> 0]
    /\ stub = Live
    /\ InitExec({1})

\* A request run, then replayed on the same input with the same
\* deterministic stub.
InitReplay ==
    /\ \E i \in 1..NumRequests : \E r \in Requests(i) : request = [e \in {1, 2} |-> r]
    /\ replayOf = [e \in {1, 2} |-> e - 1]
    /\ stub \in StubPlans
    /\ InitExec({1, 2})

\* Two requests submitted side by side: their executions run concurrently,
\* in any interleaving, against the same deterministic stub.
InitConcurrent ==
    /\ \E i \in 1..NumRequests, j \in 1..NumRequests :
          \E r1 \in Requests(i), r2 \in Requests(j) :
             request = [e \in {1, 2} |-> IF e = 1 THEN r1 ELSE r2]
    /\ replayOf = [e \in {1, 2} |-> 0]
    /\ stub \in ConcurrentPlans
    /\ InitExec({1, 2})

(***************************************************************************)
(* Retry / Catch evaluation.                                               *)
(***************************************************************************)
Responses(fn) == IF stub.mode = "live" THEN Outcomes(fn) ELSE {stub.plan[fn]}

RECURSIVE Pow(_, _)
Pow(b, k) == IF k = 0 THEN 1 ELSE b * Pow(b, k - 1)

\* Faulty variant: the wait grows linearly.
RetryWaitLinear(rule, attempt) == rule.IntervalSeconds * (attempt + 1)

\* The wait before retry number `attempt` (counted from 0) of a Retry rule.
RetryWaitSeconds(rule, attempt) == rule.IntervalSeconds * Pow(rule.BackoffRate, attempt)

ErrorClassOf(err) == err.o.Error.s

\* Faulty variant: States.ALL matches States.Runtime too.
RuleMatchesAnyError(rule, class) ==
    class \in rule.ErrorEquals \/ "States.ALL" \in rule.ErrorEquals

\* States.ALL matches every error name except States.Runtime.
RuleMatches(rule, class) ==
    \/ class \in rule.ErrorEquals
    \/ "States.ALL" \in rule.ErrorEquals /\ class # "States.Runtime"

\* The first rule, in declaration order, that matches; 0 if none does.
FirstMatch(rules, class) ==
    LET m == {i \in DOMAIN rules : RuleMatches(rules[i], class)}
    IN  IF m = {} THEN 0 ELSE CHOOSE i \in m : \A j \in m : i <= j

\* Faulty variant: the first Retry rule retries a failure of any class.
RetryIndexAnyClass(th, st, err) ==
    IF RetryOf(st) # <<>> /\ th.attempts[1] < RetryOf(st)[1].MaxAttempts THEN 1 ELSE 0

\* The Retry rule that retries this failure: it matches and has retries left.
RetryIndex(th, st, err) ==
    LET r == FirstMatch(RetryOf(st), ErrorClassOf(err))
    IN  IF r # 0 /\ th.attempts[r] < RetryOf(st)[r].MaxAttempts THEN r ELSE 0

(***************************************************************************)
(* What a thread becomes.                                                  *)
(***************************************************************************)
Enter(th, name) ==
    [th EXCEPT !.current = name, !.attempts = NoAttempts(name), !.waiting = FALSE]

\* Faulty variant: the thread stops Succeeded after any state.
CompleteAnywhere(th, st, doc) == [th EXCEPT !.status = "Succeeded", !.doc = doc]

Complete(th, st, doc) ==
    IF IsEnd(st)
    THEN [th EXCEPT !.status = "Succeeded", !.doc = doc]
    ELSE Enter([th EXCEPT !.doc = doc], st.Next)

Fail(th, err) == [th EXCEPT !.status = "Failed", !.cause = err]

CatchTransition(th, rule, err) ==
    Enter([th EXCEPT !.doc = Merge(th.doc, ResultPathOf(rule), err)], rule.Next)

\* Faulty variant: a failure that is retried is written into the Document.
OnErrorRecordsRetries(th, st, err) ==
    LET r == RetryIndex(th, st, err)
        c == FirstMatch(CatchOf(st), ErrorClassOf(err))
    IN  IF r # 0 THEN [th EXCEPT !.waiting = TRUE, !.attempts[r] = @ + 1,
                                 !.doc = Merge(th.doc, <<"error">>, err)]
        ELSE IF c # 0 THEN CatchTransition(th, CatchOf(st)[c], err)
        ELSE Fail(th, err)

\* Faulty variant: the Catch rules are consulted before the Retry rules.
OnErrorCatchFirst(th, st, err) ==
    LET r == RetryIndex(th, st, err)
        c == FirstMatch(CatchOf(st), ErrorClassOf(err))
    IN  IF c # 0 THEN CatchTransition(th, CatchOf(st)[c], err)
        ELSE IF r # 0 THEN [th EXCEPT !.waiting = TRUE, !.attempts[r] = @ + 1]
        ELSE Fail(th, err)

OnError(th, st, err) ==
    LET r == RetryIndex(th, st, err)
        c == FirstMatch(CatchOf(st), ErrorClassOf(err))
    IN  IF r # 0 THEN [th EXCEPT !.waiting = TRUE, !.attempts[r] = @ + 1]
        ELSE IF c # 0 THEN CatchTransition(th, CatchOf(st)[c], err)
        ELSE Fail(th, err)

\* Faulty variant: the threads of an execution work on one shared Document.
BecomesSharedDocument(e, t, th) ==
    /\ exec' = [exec EXCEPT ![e] = [u \in Threads |->
                  IF u = t THEN th
                  ELSE IF exec[e][u].status = "Running"
                       THEN [exec[e][u] EXCEPT !.doc = th.doc]
                       ELSE exec[e][u]]]
    /\ finished' = IF t # Main /\ th.status \in Terminal
                   THEN [finished EXCEPT ![e] = Append(@, t)]
                   ELSE finished

\* Thread t of execution e becomes th; a branch that terminates is recorded.
Becomes(e, t, th) ==
    /\ exec' = [exec EXCEPT ![e][t] = th]
    /\ finished' = IF t # Main /\ th.status \in Terminal
                   THEN [finished EXCEPT ![e] = Append(@, t)]
                   ELSE finished

\* The current state of thread t fails with err.
Raise(e, t, err) ==
    LET th == exec[e][t]
        st == States[th.current]
        r == RetryIndex(th, st, err)
    IN  /\ Becomes(e, t, OnError(th, st, err))
        /\ waits' = IF r # 0
                    THEN [waits EXCEPT ![e][th.current] =
                            Append(@, RetryWaitSeconds(RetryOf(st)[r], th.attempts[r]))]
                    ELSE waits

(***************************************************************************)
(* The execution engine: one action per kind of step.                      *)
(***************************************************************************)
Running(e, t) == exec[e][t].status = "Running"

\* Nothing has been answered to the submission for execution e yet, and it is
\* its turn (a replay is submitted when the original run is over).
Submittable(e) ==
    /\ e \in Executions
    /\ answer[e] = NoAnswer
    /\ replayOf[e] # 0 =>
          \/ exec[replayOf[e]][Main].status \in Terminal
          \/ answer[replayOf[e]] = BadRequestBody

\* POST /reviews with a body the request validator accepts: the execution is
\* started and the answer does not wait for it.
StartExecution(e) ==
    /\ Submittable(e)
    /\ ValidRequestBody(request[e].body)
    /\ exec[e][Main].status = "Pending"
    /\ exec' = [exec EXCEPT ![e][Main] =
                  Enter([@ EXCEPT !.status = "Running",
                                  !.doc = StartExecutionInput(request[e])], StartAt)]
    /\ answer' = [answer EXCEPT ![e] = SubmissionAccepted(e, request[e])]
    /\ UNCHANGED <<request, replayOf, stub, calls, waits, sent, reply, finished>>

\* POST /reviews with a body the request validator refuses: the integration
\* is not called.
RejectRequest(e) ==
    /\ Submittable(e)
    /\ ~ValidRequestBody(request[e].body)
    /\ answer' = [answer EXCEPT ![e] = BadRequestBody]
    /\ UNCHANGED <<request, replayOf, stub, exec, calls, waits, sent, reply, finished>>

\* Faulty variant: the result of a Pass state is kept with the state in the
\* definition, so every execution at that state gets the same Document.
PassStateAcrossExecutions(e, t) ==
    /\ e \in Executions
    /\ Running(e, t)
    /\ States[exec[e][t].current].Type = "Pass"
    /\ LET th == exec[e][t]
           st == States[th.current]
           doc == Merge(th.doc, ResultPathOf(st),
                        Resolve(st.Parameters, th.doc, ContextObject(e)))
       IN  /\ Resolvable(st.Parameters, th.doc)
           /\ exec' = [f \in Executions |->
                         IF f = e THEN [exec[e] EXCEPT ![t] = Complete(th, st, doc)]
                         ELSE IF Running(f, t) /\ exec[f][t].current = th.current
                              THEN [exec[f] EXCEPT ![t].doc = doc]
                              ELSE exec[f]]
           /\ finished' = IF t # Main /\ IsEnd(st)
                          THEN [finished EXCEPT ![e] = Append(@, t)]
                          ELSE finished
    /\ UNCHANGED <<request, answer, replayOf, stub, calls, waits, sent, reply>>

PassState(e, t) ==
    /\ e \in Executions
    /\ Running(e, t)
    /\ States[exec[e][t].current].Type = "Pass"
    /\ LET th == exec[e][t]
           st == States[th.current]
       IN  IF Resolvable(st.Parameters, th.doc)
           THEN /\ Becomes(e, t, Complete(th, st,
                        Merge(th.doc, ResultPathOf(st),
                              Resolve(st.Parameters, th.doc, ContextObject(e)))))
                /\ UNCHANGED waits
           ELSE Raise(e, t, RuntimeError)
    /\ UNCHANGED <<request, answer, replayOf, stub, calls, sent, reply>>

TaskState(e, t) ==
    /\ e \in Executions
    /\ Running(e, t)
    /\ States[exec[e][t].current].Type = "Task"
    /\ ~exec[e][t].waiting
    /\ LET th == exec[e][t]
           st == States[th.current]
           params == Resolve(st.Parameters, th.doc, ContextObject(e))
       IN  IF Resolvable(st.Parameters, th.doc)
           THEN \E out \in Responses(params.o.FunctionName.s) :
                  /\ calls' = [calls EXCEPT ![e][th.current] = @ + 1]
                  /\ sent' = [sent EXCEPT ![e][th.current] = params.o.Payload]
                  /\ reply' = [reply EXCEPT ![e][th.current] = out]
                  /\ IF out.ok
                     THEN /\ Becomes(e, t, Complete(th, st,
                                  Merge(th.doc, ResultPathOf(st), out.result)))
                          /\ UNCHANGED waits
                     ELSE Raise(e, t, out.error)
           ELSE /\ Raise(e, t, RuntimeError)
                /\ UNCHANGED <<calls, sent, reply>>
    /\ UNCHANGED <<request, answer, replayOf, stub>>

\* The backoff wait of a retry is over: the state runs again.
RetryWaitElapsed(e, t) ==
    /\ e \in Executions
    /\ Running(e, t)
    /\ exec[e][t].waiting
    /\ exec' = [exec EXCEPT ![e][t].waiting = FALSE]
    /\ UNCHANGED <<request, answer, replayOf, stub, calls, waits, sent, reply, finished>>

ChoiceMatches(rule, doc) ==
    LET v == Get(doc, rule.Variable)
    IN  v.t = "str" /\ v.s = rule.StringEquals

\* The first rule, in declaration order, whose predicate matches; 0 if none.
FirstChoice(st, doc) ==
    LET m == {i \in DOMAIN st.Choices : ChoiceMatches(st.Choices[i], doc)}
    IN  IF m = {} THEN 0 ELSE CHOOSE i \in m : \A j \in m : i <= j

\* Faulty variant: the Choice state goes to its first rule's Next whatever
\* the Variable holds.
ChoiceNextFirstRule(st, doc) == st.Choices[1].Next

\* Faulty variant: the Default edge leads back to the Choice state itself.
ChoiceNextDefaultLoops(st, doc) ==
    IF FirstChoice(st, doc) = 0 THEN "CheckPolicyDecision"
    ELSE st.Choices[FirstChoice(st, doc)].Next

ChoiceNext(st, doc) ==
    IF FirstChoice(st, doc) = 0 THEN st.Default ELSE st.Choices[FirstChoice(st, doc)].Next

\* Every Variable evaluated before a rule matches must be in the Document.
ChoiceResolvable(st, doc) ==
    \A i \in DOMAIN st.Choices :
        (FirstChoice(st, doc) = 0 \/ i <= FirstChoice(st, doc))
            => IsPresent(Get(doc, st.Choices[i].Variable))

ChoiceState(e, t) ==
    /\ e \in Executions
    /\ Running(e, t)
    /\ States[exec[e][t].current].Type = "Choice"
    /\ LET th == exec[e][t]
           st == States[th.current]
       IN  IF ChoiceResolvable(st, th.doc)
           THEN /\ Becomes(e, t, Enter(th, ChoiceNext(st, th.doc)))
                /\ UNCHANGED waits
           ELSE Raise(e, t, RuntimeError)
    /\ UNCHANGED <<request, answer, replayOf, stub, calls, sent, reply>>

BranchesOf(name) == BranchThreads[name]

\* Fan-out: every branch starts from a copy of the parent's Document.
ParallelStart(e) ==
    /\ e \in Executions
    /\ Running(e, Main)
    /\ States[exec[e][Main].current].Type = "Parallel"
    /\ LET th == exec[e][Main]
           st == States[th.current]
           bt == BranchesOf(th.current)
       IN  /\ \A i \in DOMAIN bt : exec[e][bt[i]].status = "Pending"
           /\ exec' = [exec EXCEPT ![e] = [t \in Threads |->
                        IF \E i \in DOMAIN bt : bt[i] = t
                        THEN LET i == CHOOSE j \in DOMAIN bt : bt[j] = t
                             IN  Enter([NewThread EXCEPT !.status = "Running",
                                                         !.doc = th.doc],
                                       st.Branches[i].StartAt)
                        ELSE exec[e][t]]]
    /\ UNCHANGED <<request, answer, replayOf, stub, calls, waits, sent, reply, finished>>

\* Faulty variant: the branches' Documents in the order the branches finished.
ParallelOutputByCompletion(e, bt) ==
    LET mine == SelectSeq(finished[e], LAMBDA t : \E i \in DOMAIN bt : bt[i] = t)
    IN  Arr([i \in DOMAIN bt |-> exec[e][mine[i]].doc])

\* The output of a Parallel state: the branches' Documents in declaration order.
ParallelOutput(e, bt) == Arr([i \in DOMAIN bt |-> exec[e][bt[i]].doc])

\* Faulty variant: the Parallel state goes on as soon as one branch has ended.
ParallelJoinFirstBranch(e) ==
    /\ e \in Executions
    /\ Running(e, Main)
    /\ States[exec[e][Main].current].Type = "Parallel"
    /\ LET th == exec[e][Main]
           st == States[th.current]
           bt == BranchesOf(th.current)
       IN  /\ \E i \in DOMAIN bt : exec[e][bt[i]].status = "Succeeded"
           /\ exec' = [exec EXCEPT ![e][Main] = Complete(th, st,
                         Merge(th.doc, ResultPathOf(st), ParallelOutput(e, bt)))]
    /\ UNCHANGED <<request, answer, replayOf, stub, calls, waits, sent, reply, finished>>

\* Fan-in: all branches succeeded, or one failed and the rest are cancelled.
ParallelJoin(e) ==
    /\ e \in Executions
    /\ Running(e, Main)
    /\ States[exec[e][Main].current].Type = "Parallel"
    /\ LET th == exec[e][Main]
           st == States[th.current]
           bt == BranchesOf(th.current)
           failed == {i \in DOMAIN bt : exec[e][bt[i]].status = "Failed"}
       IN  /\ \/ \A i \in DOMAIN bt : exec[e][bt[i]].status = "Succeeded"
              \/ failed # {}
           /\ IF failed = {}
              THEN exec' = [exec EXCEPT ![e][Main] = Complete(th, st,
                            Merge(th.doc, ResultPathOf(st), ParallelOutput(e, bt)))]
              ELSE LET f == CHOOSE i \in failed : TRUE
                       err == exec[e][bt[f]].cause
                   IN  exec' = [exec EXCEPT ![e] = [t \in Threads |->
                                IF t = Main THEN OnError(th, st, err)
                                ELSE IF exec[e][t].status = "Running"
                                     THEN [exec[e][t] EXCEPT !.status = "Cancelled"]
                                     ELSE exec[e][t]]]
    /\ UNCHANGED <<request, answer, replayOf, stub, calls, waits, sent, reply, finished>>

RECURSIVE SumSeq(_)
SumSeq(q) == IF q = <<>> THEN 0 ELSE Head(q) + SumSeq(Tail(q))

Max(a, b) == IF a >= b THEN a ELSE b

\* The function Task state s invokes.
FunctionOf(s) == States[s].Parameters.f.FunctionName.v.s

\* The longest Task state s can have taken so far: every invocation lasting
\* up to its function's timeout, plus the retry waits.
TaskSeconds(e, s) ==
    calls[e][s] * FunctionTimeoutSeconds(FunctionOf(s)) + SumSeq(waits[e][s])

\* The longest the execution can have been running: the states of the top
\* level one after the other, the two branches of ContentApproved side by
\* side.
ElapsedAtMost(e) ==
    TaskSeconds(e, "ReviewAnalysis") + TaskSeconds(e, "PolicyValidation")
    + Max(TaskSeconds(e, "GenerateSummary"), TaskSeconds(e, "LogApprovedAudit"))
    + TaskSeconds(e, "ContentRejected")

\* Faulty variant: the time bound stops the top level only, the branches run on.
ExecutionTimeoutTopLevelOnly(e) ==
    /\ e \in Executions
    /\ Running(e, Main)
    /\ ElapsedAtMost(e) > TimeoutSeconds
    /\ exec' = [exec EXCEPT ![e][Main].status = "TimedOut", ![e][Main].cause = TimeoutError]
    /\ UNCHANGED <<request, answer, replayOf, stub, calls, waits, sent, reply, finished>>

\* The execution has run longer than the state machine's timeout (how long
\* the invocations lasted is not the workflow's to decide, so this may happen
\* as soon as they can have lasted that long): it is stopped where it is,
\* its branches with it.
ExecutionTimeout(e) ==
    /\ e \in Executions
    /\ Running(e, Main)
    /\ ElapsedAtMost(e) > TimeoutSeconds
    /\ exec' = [exec EXCEPT ![e] = [t \in Threads |->
                  IF exec[e][t].status = "Running"
                  THEN [exec[e][t] EXCEPT !.status = "TimedOut", !.cause = TimeoutError]
                  ELSE exec[e][t]]]
    /\ UNCHANGED <<request, answer, replayOf, stub, calls, waits, sent, reply, finished>>

\* The executions the model may hold.
ExecutionIds == DOMAIN ExecutionNames

Next ==
    \/ \E e \in ExecutionIds : StartExecution(e)
    \/ \E e \in ExecutionIds : RejectRequest(e)
    \/ \E e \in ExecutionIds : ParallelStart(e)
    \/ \E e \in ExecutionIds : ParallelJoin(e)
    \/ \E e \in ExecutionIds, t \in Threads : PassState(e, t)
    \/ \E e \in ExecutionIds, t \in Threads : TaskState(e, t)
    \/ \E e \in ExecutionIds, t \in Threads : RetryWaitElapsed(e, t)
    \/ \E e \in ExecutionIds, t \in Threads : ChoiceState(e, t)
    \/ \E e \in ExecutionIds : ExecutionTimeout(e)

Spec == Init /\ [][Next]_vars

SpecReplay == InitReplay /\ [][Next]_vars

SpecConcurrent == InitConcurrent /\ [][Next]_vars

\* The steps the service and the functions take of their own accord: an
\* answer to a submission, the evaluation of a state, the return of an
\* invocation, the end of a retry wait.  The time bound is not among them:
\* whether it passes depends on how long the invocations last.
Progress ==
    \/ \E e \in ExecutionIds : StartExecution(e)
    \/ \E e \in ExecutionIds : RejectRequest(e)
    \/ \E e \in ExecutionIds : ParallelStart(e)
    \/ \E e \in ExecutionIds : ParallelJoin(e)
    \/ \E e \in ExecutionIds, t \in Threads : PassState(e, t)
    \/ \E e \in ExecutionIds, t \in Threads : TaskState(e, t)
    \/ \E e \in ExecutionIds, t \in Threads : RetryWaitElapsed(e, t)
    \/ \E e \in ExecutionIds, t \in Threads : ChoiceState(e, t)

\* One submission run against a deterministic stub: among the plans are those
\* in which a function fails on every invocation, with a class that is
\* retried until the attempts are used up or with one that is not.
InitFair ==
    /\ \E i \in 1..NumRequests : \E r \in Requests(i) : request = [e \in {1} |-> r]
    /\ replayOf = [e \in {1} |-> 0]
    /\ stub \in StubPlans
    /\ InitExec({1})

\* Every step that can be taken is eventually taken: each invocation
\* eventually returns and the service does not stall.
SpecFair == InitFair /\ [][Next]_vars /\ WF_vars(Progress)

(***************************************************************************)
(* The status query: GET /reviews/{executionId}, integrated with the       *)
(* DescribeExecution API of Step Functions.                                *)
(***************************************************************************)
Started(e) == e \in Executions /\ exec[e][Main].status # "Pending"

\* The status names of the Step Functions API.
ApiStatus(s) ==
    CASE s = "Running" -> "RUNNING"
      [] s = "Succeeded" -> "SUCCEEDED"
      [] s = "Failed" -> "FAILED"
      [] s = "TimedOut" -> "TIMED_OUT"
      [] s = "Cancelled" -> "ABORTED"

\* When the execution stopped: a moment after it started that the workflow
\* does not determine.
StopDate(e) == "after " \o Timestamps[e]

\* What Step Functions answers to DescribeExecution: the description of the
\* execution with that ARN (stopDate once it has stopped, output when it
\* Succeeded, error and cause when it did not), or an error if there is none.
DescribeExecution(arn) ==
    IF \E e \in Executions : Started(e) /\ ExecutionArn(e) = arn
    THEN LET e == CHOOSE x \in Executions : Started(x) /\ ExecutionArn(x) = arn
             th == exec[e][Main]
             all == [executionArn |-> Str(arn),
                     status |-> Str(ApiStatus(th.status)),
                     startDate |-> Str(Timestamps[e]),
                     stopDate |-> Str(StopDate(e)),
                     output |-> JsonText(th.doc),
                     error |-> Get(th.cause, <<"Error">>),
                     cause |-> Get(th.cause, <<"Cause">>)]
             present == {"executionArn", "status", "startDate"}
                        \cup (IF th.status \in Terminal THEN {"stopDate"} ELSE {})
                        \cup (IF th.status = "Succeeded" THEN {"output"} ELSE {})
                        \cup (IF IsPresent(th.cause) THEN {"error", "cause"} ELSE {})
         IN  Obj([f \in present |-> all[f]])
    ELSE Obj(("__type" :> Str("InvalidArn")) @@ ("message" :> Str("Invalid Arn")))

\* The template variables of a status query for the path parameter executionId.
StatusQueryContext(executionId) ==
    ("context.requestId" :> "req-q") @@
    ("input.params('executionId')" :> executionId)

DescribeExecutionRequestTemplate ==
    [executionArn |-> VReference("method.request.path.executionId")]

DescribeExecutionResponseTemplate ==
    [execution_arn |-> VInputPath(<<"executionArn">>),
     status |-> VInputPath(<<"status">>),
     start_date |-> VInputPath(<<"startDate">>),
     stop_date |-> VInputPath(<<"stopDate">>),
     output |-> VInputPath(<<"output">>)]

\* The ARN the integration asks Step Functions about.
DescribeExecutionRequest(executionId) ==
    Render(DescribeExecutionRequestTemplate, Absent,
           StatusQueryContext(executionId)).o.executionArn.s

\* The one integration response (no selectionPattern) renders whatever
\* Step Functions answered.
DescribeExecutionResponse(arn, cx) ==
    Answer(200, Render(DescribeExecutionResponseTemplate, DescribeExecution(arn), cx))

StatusQuery(executionId) ==
    DescribeExecutionResponse(DescribeExecutionRequest(executionId),
                              StatusQueryContext(executionId))

(***************************************************************************)
(* Properties.                                                             *)
(***************************************************************************)
Stopped(e) == exec[e][Main].status \in Terminal

TimedOut(e) == exec[e][Main].status = "TimedOut"

\* The execution ran to an end of its own (the time bound did not stop it).
RanToEnd(e) == Stopped(e) /\ ~TimedOut(e)

\* What the analysis task and the policy task last returned (Absent: nothing,
\* or a failure).
AnalysisReturned(e) == Get(reply[e]["ReviewAnalysis"].result, <<"Payload">>)
DecisionReturned(e) ==
    Get(reply[e]["PolicyValidation"].result,
        <<"Payload", "validation_result", "decision">>)

\* The last invocation of Task state s failed with a class its Retry rule lists.
FailedTransient(e, s) ==
    /\ calls[e][s] > 0
    /\ ~reply[e][s].ok
    /\ ErrorClassOf(reply[e][s].error) \in LambdaTransient

\* Some thread of e is evaluating state s.
At(e, s) == \E t \in Threads : exec[e][t].status = "Running" /\ exec[e][t].current = s

(* C1: Scenario 1.  Whenever the analysis task returned low-risk scores and *)
(* the policy task returned decision ALLOW, an execution that has run to    *)
(* its end (within the time bound) has stopped Succeeded at                 *)
(* SuccessResponse with policy_decision APPROVED,                           *)
(* after both branches of ContentApproved (GenerateSummary and              *)
(* LogApprovedAudit) were executed.                                         *)
C1_Scenario1Approved ==
    \A e \in Executions :
        (AnalysisReturned(e) = LowRisk /\ DecisionReturned(e) = Str("ALLOW") /\ RanToEnd(e))
        => /\ exec[e][Main].status = "Succeeded"
           /\ exec[e][Main].current = "SuccessResponse"
           /\ Get(exec[e][Main].doc, <<"policy_decision">>) = Str("APPROVED")
           /\ calls[e]["GenerateSummary"] >= 1
           /\ calls[e]["LogApprovedAudit"] >= 1
           /\ \A i \in DOMAIN BranchThreads["ContentApproved"] :
                exec[e][BranchThreads["ContentApproved"][i]].status = "Succeeded"

(* C2: Scenario 2.  Once the policy task has returned decision DENY, the    *)
(* execution is on the rejected path (CheckPolicyDecision, then its Default *)
(* target ContentRejected, then RejectedResponse), the summarizer is never  *)
(* invoked and no ContentApproved branch runs, RejectedResponse is reached  *)
(* only after the audit-logger task was invoked, and the execution, unless  *)
(* the time bound stops it first, stops only Succeeded at RejectedResponse  *)
(* with policy_decision DENIED.                                             *)
C2_Scenario2Denied ==
    \A e \in Executions :
        DecisionReturned(e) = Str("DENY")
        => /\ exec[e][Main].current \in
                {"PolicyValidation", "CheckPolicyDecision", "ContentRejected", "RejectedResponse"}
           /\ exec[e][Main].current = "PolicyValidation" => exec[e][Main].waiting = FALSE
           /\ calls[e]["GenerateSummary"] = 0
           /\ calls[e]["LogApprovedAudit"] = 0
           /\ \A i \in DOMAIN BranchThreads["ContentApproved"] :
                exec[e][BranchThreads["ContentApproved"][i]].status = "Pending"
           /\ exec[e][Main].current = "RejectedResponse" => calls[e]["ContentRejected"] >= 1
           /\ RanToEnd(e) =>
                /\ exec[e][Main].status = "Succeeded"
                /\ exec[e][Main].current = "RejectedResponse"
                /\ Get(exec[e][Main].doc, <<"policy_decision">>) = Str("DENIED")

C2_Witness ==
    \E e \in Executions :
        /\ DecisionReturned(e) = Str("DENY")
        /\ exec[e][Main].status = "Succeeded"
        /\ exec[e][Main].current = "RejectedResponse"
        /\ calls[e]["ContentRejected"] >= 1

(* C3: Scenario 4.  When ReviewAnalysis has failed once with an error class *)
(* its Catch rule matches and its Retry rule does not, the execution is not *)
(* Failed, the branch has moved to the Catch target AnalysisError (or ended *)
(* there), and the error class and message are in the branch's Document at  *)
(* $.error.                                                                 *)
C3_Scenario4Caught ==
    \A e \in Executions :
        (/\ calls[e]["ReviewAnalysis"] = 1
         /\ ~reply[e]["ReviewAnalysis"].ok
         /\ ErrorClassOf(reply[e]["ReviewAnalysis"].error) \notin LambdaTransient)
        => /\ exec[e][Main].status # "Failed"
           /\ exec[e][1].current = "AnalysisError"
           /\ Get(exec[e][1].doc, <<"error">>) = reply[e]["ReviewAnalysis"].error

\* The waits the retry rules are said to produce, per Task state.
ClaimedWaits(s) ==
    IF s \in {"ReviewAnalysis", "PolicyValidation", "GenerateSummary"}
    THEN <<2, 4, 8>>
    ELSE <<1, 2>>

\* State s has been left: no thread is at s (evaluating it or stopped in it).
Left(e, s) == \A t \in Threads : exec[e][t].current # s

(* C4: retry schedule.  For every Task state with N = MaxAttempts, the      *)
(* retry waits made so far are the first waits of 2, 4, 8 seconds           *)
(* (ReviewAnalysis, PolicyValidation, GenerateSummary) or of 1, 2 seconds   *)
(* (LogApprovedAudit, ContentRejected): the k-th retry follows a wait of    *)
(* I*B^k.  Each wait is followed by one more invocation.  While a failure   *)
(* of a retried class has retries left the state is run again; after the    *)
(* N-th retry has failed too (N+1 invocations, N waits) the state is left   *)
(* through its Catch rule.  (An execution the time bound has stopped runs   *)
(* nothing again.)                                                          *)
C4_RetrySchedule ==
    \A e \in Executions, s \in TaskStates :
        LET n == Len(waits[e][s])
            N == Len(ClaimedWaits(s))
        IN  /\ n <= N
            /\ waits[e][s] = SubSeq(ClaimedWaits(s), 1, n)
            /\ calls[e][s] \in {n, n + 1}
            /\ (FailedTransient(e, s) /\ ~TimedOut(e)) =>
                 /\ calls[e][s] <= N => (At(e, s) /\ n = calls[e][s])
                 /\ calls[e][s] = N + 1 =>
                      /\ n = N
                      /\ Left(e, s)
                      /\ \E t \in Threads :
                           exec[e][t].current \in
                             {"AnalysisError", "PolicyError", "CheckPolicyDecision",
                              "SummaryError", "AuditLogError", "RejectedResponse"}

C4_Witness ==
    \E e \in Executions :
        /\ waits[e]["GenerateSummary"] = <<2, 4, 8>>
        /\ calls[e]["GenerateSummary"] = 4
        /\ FailedTransient(e, "GenerateSummary")
        /\ exec[e][2].current = "SummaryError"
        /\ waits[e]["LogApprovedAudit"] = <<1, 2>>
        /\ calls[e]["LogApprovedAudit"] = 3
        /\ FailedTransient(e, "LogApprovedAudit")
        /\ exec[e][3].current = "AuditLogError"

\* ReviewAnalysis failed on every invocation with a retried class and is no
\* longer retried.
AnalysisRetriesExhausted(e) ==
    FailedTransient(e, "ReviewAnalysis") /\ Left(e, "ReviewAnalysis")

(* C5 as stated: when the analysis task fails on every invocation with a    *)
(* class its Retry rule lists (MaxAttempts = 3), exactly 3 invocations have *)
(* occurred when retrying stops.                                            *)
C5_ThreeInvocations ==
    \A e \in Executions :
        AnalysisRetriesExhausted(e) => calls[e]["ReviewAnalysis"] = 3

(* C5 amended: MaxAttempts counts the retries, so exactly 4 invocations     *)
(* (the first one and 3 retries) have occurred when retrying stops, and     *)
(* never more than 4 occur.                                                 *)
C5_FourInvocations ==
    \A e \in Executions :
        /\ calls[e]["ReviewAnalysis"] <= 4
        /\ AnalysisRetriesExhausted(e) => calls[e]["ReviewAnalysis"] = 4

C5_Witness ==
    \E e \in Executions :
        /\ AnalysisRetriesExhausted(e)
        /\ exec[e][1].current = "AnalysisError"
        /\ Len(waits[e]["ReviewAnalysis"]) = 3

\* The state a thread is at cannot be evaluated: a path reference of its
\* Parameters, or the Variable of a Choice rule, is not in the Document.
Unresolvable(th) ==
    LET st == States[th.current]
    IN  CASE st.Type \in {"Pass", "Task"} -> ~Resolvable(st.Parameters, th.doc)
          [] st.Type = "Choice" -> ~ChoiceResolvable(st, th.doc)
          [] OTHER -> FALSE

C7_ChoiceRouting ==
    [][\A e \in Executions :
         LET th == exec[e][Main]
             nx == exec'[e][Main]
             decision == Get(th.doc, DecisionPath)
         IN  (th.status = "Running" /\ th.current = "CheckPolicyDecision"
                /\ nx.current # "CheckPolicyDecision")
             => nx.current = IF decision.t = "str" /\ decision.s = "ALLOW"
                             THEN "ContentApproved"
                             ELSE "ContentRejected"]_vars

C7_Witness ==
    \E e \in Executions :
        /\ exec[e][Main].current = "ContentRejected"
        /\ DecisionReturned(e) = Str("REVIEW")

(* C8: Parallel output order.  The Document a Parallel state hands to its   *)
(* Next state holds the branches' terminal Documents in declaration order,  *)
(* whatever order the branches finished in: on entry to SuccessResponse     *)
(* element 0 is the Document of the GenerateSummary branch and element 1    *)
(* that of the LogApprovedAudit branch; after ProcessReview,                *)
(* $.parallel_results is the one-element array of the ReviewAnalysis        *)
(* branch's Document.                                                       *)
C8_ParallelOrder ==
    \A e \in Executions :
        LET th == exec[e][Main]
        IN  /\ (th.current = "SuccessResponse" /\ th.status # "Succeeded")
                 => /\ exec[e][2].current \in {"GenerateSummary", "SummaryError"}
                    /\ exec[e][3].current \in {"LogApprovedAudit", "AuditLogError"}
                    /\ th.doc.t = "arr"
                    /\ Len(th.doc.a) = 2
                    /\ th.doc.a[1] = exec[e][2].doc
                    /\ th.doc.a[2] = exec[e][3].doc
            /\ th.current = "PolicyValidation"
                 => Get(th.doc, <<"parallel_results">>) = Arr(<<exec[e][1].doc>>)

\* The LogApprovedAudit branch finished before the GenerateSummary branch.
C8_Witness ==
    \E e \in Executions :
        /\ exec[e][Main].current = "SuccessResponse"
        /\ exec[e][Main].status = "Running"
        /\ finished[e] = <<1, 3, 2>>

(* C9: ResultPath merge keeps the rest of the Document.  Merging {"x":1} at *)
(* "result" into {"y":2} yields {"y":2,"result":{"x":1}}; and in every step *)
(* in which the invocation of ReviewAnalysis, PolicyValidation,             *)
(* GenerateSummary, LogApprovedAudit or ContentRejected succeeds, every     *)
(* field the thread's Document had before the step is in the Document after *)
(* it with the same value.                                                  *)
C9_ResultPathFrame ==
    [][/\ Merge(Obj([y |-> Num(2)]), <<"result">>, Obj([x |-> Num(1)]))
            = Obj([y |-> Num(2), result |-> Obj([x |-> Num(1)])])
       /\ \A e \in Executions, t \in Threads :
            LET th == exec[e][t]
                nx == exec'[e][t]
                s == th.current
            IN  (/\ th.status = "Running"
                 /\ s \in TaskStates
                 /\ calls'[e][s] = calls[e][s] + 1
                 /\ reply'[e][s].ok)
                => /\ Fields(th.doc) # {}
                   /\ \A k \in Fields(th.doc) :
                        k \in Fields(nx.doc) /\ nx.doc.o[k] = th.doc.o[k]]_vars

C9_Witness ==
    \E e \in Executions :
        /\ exec[e][Main].current = "CheckPolicyDecision"
        /\ reply[e]["PolicyValidation"].ok
        /\ Fields(exec[e][Main].doc) =
             DOMAIN ValidateInput.Parameters.f \cup {"parallel_results", "policy_result"}

\* An output document without the two fields that name the run itself.
WithoutRunIdentity(doc) ==
    Merge(Merge(doc, <<"processing_metadata", "execution_id">>, Absent),
          <<"processing_metadata", "timestamp">>, Absent)

(* C10 as stated: an execution and its replay on the same input document,   *)
(* with the same deterministic stub, yield identical output documents,      *)
(* processing_metadata.execution_id and .timestamp included.                *)
C10_ReplayIdentical ==
    \A e \in Executions :
        (/\ replayOf[e] # 0
         /\ exec[e][Main].status = "Succeeded"
         /\ exec[replayOf[e]][Main].status = "Succeeded")
        => exec[e][Main].doc = exec[replayOf[e]][Main].doc

(* C10 amended: when neither run is stopped by the time bound, the replay   *)
(* stops with the same status as the original run,                          *)
(* and when both Succeeded their output documents are identical in every    *)
(* field other than processing_metadata.execution_id and                    *)
(* processing_metadata.timestamp, which carry each run's own execution name *)
(* and entry time.                                                          *)
C10_ReplayIdenticalButRunIdentity ==
    \A e \in Executions :
        (replayOf[e] # 0 /\ RanToEnd(e) /\ RanToEnd(replayOf[e]))
        => /\ exec[e][Main].status = exec[replayOf[e]][Main].status
           /\ exec[e][Main].status = "Succeeded"
                => /\ WithoutRunIdentity(exec[e][Main].doc)
                        = WithoutRunIdentity(exec[replayOf[e]][Main].doc)
                   /\ \A r \in {e, replayOf[e]} :
                        /\ Get(exec[r][Main].doc, <<"processing_metadata", "execution_id">>)
                             = Str(ExecutionNames[r])
                        /\ Get(exec[r][Main].doc, <<"processing_metadata", "timestamp">>)
                             = Str(Timestamps[r])

C10_Witness ==
    \E e \in Executions :
        /\ replayOf[e] # 0
        /\ exec[e][Main].status = "Succeeded"
        /\ exec[replayOf[e]][Main].status = "Succeeded"
        /\ exec[e][Main].current = "SuccessResponse"
        /\ Get(exec[e][Main].doc, <<"processing_metadata", "execution_id">>)
             # Get(exec[replayOf[e]][Main].doc, <<"processing_metadata", "execution_id">>)

\* The threads that run the branches of the Parallel states.
AllBranchThreads == Threads \ {Main}

(* C11: failures inside a branch do not escape.  Whatever the invocations   *)
(* of ReviewAnalysis, GenerateSummary and LogApprovedAudit return, and      *)
(* however often they fail, no branch ever stops Failed or is cancelled for *)
(* a sibling's failure, the execution never becomes Failed at ProcessReview *)
(* or ContentApproved, and when the top level leaves one of these Parallel  *)
(* states it goes on, Running, to that state's Next with every branch       *)
(* Succeeded.                                                               *)
C11_BranchFailuresAbsorbed ==
    /\ [](\A e \in Executions :
            /\ \A t \in AllBranchThreads : exec[e][t].status \notin {"Failed", "Cancelled"}
            /\ exec[e][Main].current \in ParallelStates => exec[e][Main].status # "Failed")
    /\ [][\A e \in Executions :
            LET th == exec[e][Main]
                nx == exec'[e][Main]
            IN  (th.current \in ParallelStates /\ nx.current # th.current)
                => /\ nx.current = States[th.current].Next
                   /\ nx.status = "Running"
                   /\ \A i \in DOMAIN BranchThreads[th.current] :
                        exec[e][BranchThreads[th.current][i]].status = "Succeeded"]_vars

\* Both branch tasks of ContentApproved failed, the summarizer on all four
\* invocations, and ContentApproved completed.
C11_Witness ==
    \E e \in Executions :
        /\ exec[e][Main].current = "SuccessResponse"
        /\ calls[e]["GenerateSummary"] = 4
        /\ ~reply[e]["GenerateSummary"].ok
        /\ calls[e]["LogApprovedAudit"] >= 1
        /\ ~reply[e]["LogApprovedAudit"].ok
        /\ ErrorClassOf(reply[e]["LogApprovedAudit"].error) \notin LambdaTransient

C14_BranchIsolation ==
    /\ [](\A e \in Executions :
            /\ Fields(exec[e][2].doc) \cap {"audit_result", "audit_error"} = {}
            /\ "summary_result" \notin Fields(exec[e][3].doc))
    /\ [][\A e \in Executions :
            /\ (exec[e][Main].current \in ParallelStates
                   /\ exec'[e][Main].current = exec[e][Main].current)
                 => exec'[e][Main].doc = exec[e][Main].doc
            /\ \A t \in AllBranchThreads :
                 /\ (exec[e][t].status = "Pending" /\ exec'[e][t].status = "Running")
                      => exec'[e][t].doc = exec[e][Main].doc
                 /\ (exec[e][t].status = "Running" /\ exec'[e][t].doc # exec[e][t].doc)
                      => \A u \in Threads \ {t} : exec'[e][u] = exec[e][u]]_vars

\* Both branches of ContentApproved have written their result and the top
\* level still waits at ContentApproved.
C14_Witness ==
    \E e \in Executions :
        /\ exec[e][Main].current = "ContentApproved"
        /\ exec[e][Main].status = "Running"
        /\ exec[e][2].status = "Succeeded"
        /\ exec[e][3].status = "Succeeded"
        /\ "summary_result" \in Fields(exec[e][2].doc)
        /\ "audit_result" \in Fields(exec[e][3].doc)
        /\ Fields(exec[e][Main].doc) \cap {"summary_result", "audit_result"} = {}

(* C15: fan-in barrier.  While a branch of a Parallel state is running, the *)
(* top level is at that Parallel state: the state after it is not           *)
(* evaluated.  SuccessResponse is entered only when both branches of        *)
(* ContentApproved have ended, and PolicyValidation is entered, and the     *)
(* policy task invoked, only when the branch of ProcessReview has ended.    *)
C15_FanInBarrier ==
    \A e \in Executions :
        /\ \A p \in ParallelStates : \A i \in DOMAIN BranchThreads[p] :
             exec[e][BranchThreads[p][i]].status = "Running"
             => (exec[e][Main].current = p /\ exec[e][Main].status = "Running")
        /\ exec[e][Main].current = "SuccessResponse"
             => (exec[e][2].status = "Succeeded" /\ exec[e][3].status = "Succeeded")
        /\ (exec[e][Main].current = "PolicyValidation" \/ calls[e]["PolicyValidation"] > 0)
             => exec[e][1].status = "Succeeded"

\* SuccessResponse is entered after the summary branch, the slower one here
\* (it retried), has ended.
C15_Witness ==
    \E e \in Executions :
        /\ exec[e][Main].current = "SuccessResponse"
        /\ finished[e] = <<1, 3, 2>>
        /\ calls[e]["GenerateSummary"] >= 2
        /\ calls[e]["PolicyValidation"] >= 1

(* C16: one current state, one-way status.  Every thread of an execution    *)
(* (the top level and each branch) that has started is at exactly one       *)
(* state, a state of its own scope; its status moves only from Pending to   *)
(* Running and from Running to Succeeded, Failed or TimedOut; a thread that *)
(* has stopped never changes again; and a thread is Succeeded only at an    *)
(* End state, the top level only at SuccessResponse or RejectedResponse.    *)
C16_StatusLifecycle ==
    /\ [](\A e \in Executions : \A t \in Threads :
            LET th == exec[e][t]
            IN  /\ th.status \in {"Pending", "Running", "Succeeded", "Failed", "TimedOut"}
                /\ th.status = "Pending" => th.current = ""
                /\ th.status # "Pending" => th.current \in ScopeOf(t)
                /\ th.status = "Succeeded" => IsEnd(States[th.current])
                /\ (t = Main /\ th.status = "Succeeded")
                     => th.current \in {"SuccessResponse", "RejectedResponse"})
    /\ [][\A e \in Executions : \A t \in Threads :
            LET th == exec[e][t]
                nx == exec'[e][t]
            IN  /\ nx.status # th.status
                     => \/ th.status = "Pending" /\ nx.status = "Running"
                        \/ th.status = "Running"
                             /\ nx.status \in {"Succeeded", "Failed", "TimedOut"}
                /\ th.status \in Terminal => nx = th]_vars

\* The top level and all three branches have succeeded, each at an End state.
C16_Witness ==
    \E e \in Executions :
        /\ exec[e][Main].status = "Succeeded"
        /\ exec[e][Main].current = "SuccessResponse"
        /\ exec[e][1].status = "Succeeded" /\ exec[e][1].current = "ReviewAnalysis"
        /\ exec[e][2].status = "Succeeded" /\ exec[e][2].current = "GenerateSummary"
        /\ exec[e][3].status = "Succeeded" /\ exec[e][3].current = "AuditLogError"

(* C17: a Task state does not touch the Document before its result is       *)
(* merged.  In every step after which a thread is still running the Task    *)
(* state it was at (an invocation failed and is to be retried, or the       *)
(* backoff wait ended), the thread's Document is unchanged; and every retry *)
(* is invoked with the payload of the invocation before it, so with that of *)
(* the first.                                                               *)
C17_TaskFrame ==
    [][\A e \in Executions : \A t \in Threads :
         LET th == exec[e][t]
             nx == exec'[e][t]
             s == th.current
         IN  (th.status = "Running" /\ s \in TaskStates)
             => /\ (nx.status = "Running" /\ nx.current = s) => nx.doc = th.doc
                /\ (calls[e][s] >= 1 /\ calls'[e][s] = calls[e][s] + 1)
                     => sent'[e][s] = sent[e][s]
                /\ calls'[e][s] = calls[e][s] => sent'[e][s] = sent[e][s]]_vars

\* PolicyValidation succeeded on its third retry: four invocations with one
\* payload, the Document untouched until the result was merged.
C17_Witness ==
    \E e \in Executions :
        /\ calls[e]["PolicyValidation"] = 4
        /\ waits[e]["PolicyValidation"] = <<2, 4, 8>>
        /\ reply[e]["PolicyValidation"].ok
        /\ exec[e][Main].current = "CheckPolicyDecision"
        /\ Get(sent[e]["PolicyValidation"], <<"analysis_result">>)
             = Get(exec[e][Main].doc, AnalysisPath)

(* C18: Retry is consulted before Catch.  When an invocation of a Task      *)
(* state fails with a class its Retry rule lists and fewer than MaxAttempts *)
(* retries have been made, the thread stays at the state and waits for the  *)
(* retry: it does not move to the Catch target.  A failure of such a class  *)
(* (Lambda.ServiceException, say) takes the States.ALL Catch edge only when *)
(* all MaxAttempts retries have been made, after MaxAttempts + 1            *)
(* invocations.                                                             *)
C18_RetryBeforeCatch ==
    [][\A e \in Executions : \A t \in Threads :
         LET th == exec[e][t]
             nx == exec'[e][t]
             s == th.current
             st == States[s]
             failed == calls'[e][s] = calls[e][s] + 1 /\ ~reply'[e][s].ok
             class == ErrorClassOf(reply'[e][s].error)
             r == FirstMatch(RetryOf(st), class)
         IN  (th.status = "Running" /\ s \in TaskStates /\ failed /\ r # 0)
             => IF Len(waits[e][s]) < RetryOf(st)[r].MaxAttempts
                THEN /\ nx.current = s
                     /\ nx.status = "Running"
                     /\ nx.waiting
                     /\ Len(waits'[e][s]) = Len(waits[e][s]) + 1
                ELSE /\ calls'[e][s] = RetryOf(st)[r].MaxAttempts + 1
                     /\ nx.current = CatchOf(st)[1].Next
                     /\ waits'[e][s] = waits[e][s]]_vars

\* PolicyValidation failed four times with Lambda.ServiceException and only
\* then went to PolicyError.
C18_Witness ==
    \E e \in Executions :
        /\ exec[e][Main].current = "PolicyError"
        /\ calls[e]["PolicyValidation"] = 4
        /\ waits[e]["PolicyValidation"] = <<2, 4, 8>>
        /\ ~reply[e]["PolicyValidation"].ok
        /\ ErrorClassOf(reply[e]["PolicyValidation"].error) = "Lambda.ServiceException"

(* C19: a Choice predicate never raises an error.  When                     *)
(* $.policy_result.Payload.validation_result.decision is not in the         *)
(* Document, CheckPolicyDecision takes its rule as not matched and goes to  *)
(* the Default target ContentRejected: the execution never stops Failed at  *)
(* CheckPolicyDecision.                                                     *)
C19_ChoiceNeverFails ==
    \A e \in Executions :
        ~(exec[e][Main].current = "CheckPolicyDecision" /\ exec[e][Main].status = "Failed")

\* A state is left as the definition allows when it has exactly one way on:
\* one Next, or the rules and Default of a Choice state.
OneWayOn(n) ==
    IF States[n].Type = "Choice"
    THEN {"Next", "End"} \cap DOMAIN States[n] = {} /\ "Default" \in DOMAIN States[n]
    ELSE "Next" \in DOMAIN States[n] /\ NextEdges(n) = {States[n].Next}

\* What both readings of the definition invariant share: in every scope the
\* states that do not end it have exactly one way on, every Next, Default and
\* Catch target is a state of the same scope, and every state is reachable
\* from StartAt.
WellFormedScopes ==
    \A sc \in Scopes :
        /\ sc.StartAt \in sc.States
        /\ \A n \in sc.States :
             /\ IsEnd(States[n]) \/ OneWayOn(n)
             /\ NextEdges(n) \cup CatchEdges(n) \subseteq sc.States
        /\ ReachableFrom({sc.StartAt}) = sc.States

(* C20 as stated: the definition invariant holds in every scope, and the    *)
(* terminal (End) states, wherever a thread comes to one, have no outgoing  *)
(* edge.                                                                    *)
C20_DefinitionInvariant ==
    /\ WellFormedScopes
    /\ \A e \in Executions : \A t \in Threads :
         LET n == exec[e][t].current
         IN  (exec[e][t].status # "Pending" /\ IsEnd(States[n]))
             => NextEdges(n) \cup CatchEdges(n) = {}

(* C20 amended: the definition invariant holds in every scope; the End      *)
(* states have no Next and no Default, but the End Task states              *)
(* (ReviewAnalysis, GenerateSummary, LogApprovedAudit) each have one        *)
(* outgoing Catch edge, to the fallback state of their branch.  Every       *)
(* thread moves only along these edges: from a state to its Next or Choice  *)
(* target, or, when a Task state fails, to its Catch target.                *)
C20_DefinitionInvariantWithCatchEdges ==
    /\ [](/\ WellFormedScopes
          /\ \A n \in StateNames :
               IsEnd(States[n]) =>
                 /\ NextEdges(n) = {}
                 /\ Cardinality(CatchEdges(n)) = IF States[n].Type = "Task" THEN 1 ELSE 0
          /\ {n \in StateNames : IsEnd(States[n]) /\ CatchEdges(n) # {}}
               = {"ReviewAnalysis", "GenerateSummary", "LogApprovedAudit"})
    /\ [][\A e \in Executions : \A t \in Threads :
            LET th == exec[e][t]
                nx == exec'[e][t]
            IN  (th.status = "Running" /\ nx.current # th.current)
                => \/ nx.current \in NextEdges(th.current)
                   \/ /\ nx.current \in CatchEdges(th.current)
                      /\ ~reply'[e][th.current].ok
                      /\ calls'[e][th.current] = calls[e][th.current] + 1]_vars

\* The ReviewAnalysis branch has left its End state ReviewAnalysis along the
\* Catch edge.
C20_Witness ==
    \E e \in Executions :
        /\ exec[e][1].current = "AnalysisError"
        /\ IsEnd(ReviewAnalysis)
        /\ ~reply[e]["ReviewAnalysis"].ok
        /\ Get(exec[e][1].doc, <<"error">>) = reply[e]["ReviewAnalysis"].error

(* C21: submission and status query.  The answer to an accepted submission  *)
(* is given in the step that starts the execution, before the execution has *)
(* stopped, and carries the execution's identifier and status PROCESSING; a *)
(* status query for that identifier returns the execution's status and      *)
(* start time, its stop time once it has stopped, and, when it Succeeded,   *)
(* the final Document of the terminal state as output.                      *)
C21_SubmissionAndStatusQuery ==
    \A e \in Executions :
        /\ answer[e].statusCode = 200 =>
              /\ Started(e)
              /\ Get(answer[e].body, <<"execution_arn">>) = Str(ExecutionArn(e))
              /\ Get(answer[e].body, <<"status">>) = Str("PROCESSING")
        /\ Started(e) =>
              LET q == StatusQuery(ExecutionArn(e)).body
                  th == exec[e][Main]
              IN  /\ answer[e].statusCode = 200
                  /\ Get(q, <<"status">>) = Str(ApiStatus(th.status))
                  /\ Get(q, <<"start_date">>) = Str(Timestamps[e])
                  /\ th.status \in Terminal => Get(q, <<"stop_date">>) = Str(StopDate(e))
                  /\ th.status = "Succeeded" => Get(q, <<"output">>) = JsonText(th.doc)

(* C22: a Failed or TimedOut execution is not dropped.  For every execution *)
(* that has stopped Failed or TimedOut, the status query for its identifier *)
(* returns that terminal status, and a field of the answer carries the      *)
(* failure cause recorded for the execution.                                *)
C22_FailureExposed ==
    \A e \in Executions :
        exec[e][Main].status \in {"Failed", "TimedOut"} =>
            LET q == StatusQuery(ExecutionArn(e)).body
                th == exec[e][Main]
            IN  /\ Get(q, <<"status">>) = Str(ApiStatus(th.status))
                /\ \E f \in Fields(q) : q.o[f] = Get(th.cause, <<"Cause">>)

(* C23: success rate 100% for valid requests.  Whatever the five Task       *)
(* states' invocations return (results or classified failures), an          *)
(* execution started from a request that passed validation is never Failed, *)
(* and when it has run to its end (within the time bound) it has stopped    *)
(* Succeeded at SuccessResponse or RejectedResponse.                        *)
C23_AlwaysSucceeds ==
    \A e \in Executions :
        answer[e].statusCode = 200 =>
            /\ exec[e][Main].status # "Failed"
            /\ RanToEnd(e) =>
                  /\ exec[e][Main].status = "Succeeded"
                  /\ exec[e][Main].current \in {"SuccessResponse", "RejectedResponse"}

\* The Task state that invokes the audit logger on the path that ends at
\* terminal state s.
AuditStateOf(s) == IF s = "SuccessResponse" THEN "LogApprovedAudit" ELSE "ContentRejected"

(* C24: all decisions are logged.  In every execution that has stopped      *)
(* Succeeded, the audit-logger task has been invoked at least once, by      *)
(* LogApprovedAudit when the execution ended at SuccessResponse and by      *)
(* ContentRejected when it ended at RejectedResponse, and the payload of    *)
(* that invocation carries, as audit_event.policy_decision, the validation  *)
(* result the policy task returned to this execution.                       *)
C24_DecisionsLogged ==
    \A e \in Executions :
        exec[e][Main].status = "Succeeded" =>
            LET s == AuditStateOf(exec[e][Main].current)
                decision == Get(reply[e]["PolicyValidation"].result,
                                <<"Payload", "validation_result">>)
            IN  /\ calls[e][s] >= 1
                /\ FunctionOf(s) = "ai-compliance-audit-logger"
                /\ IsPresent(decision)
                /\ Get(sent[e][s], <<"audit_event", "policy_decision">>) = decision

C24_Witness ==
    \E e \in Executions :
        /\ exec[e][Main].status = "Succeeded"
        /\ exec[e][Main].current = "RejectedResponse"
        /\ calls[e]["ContentRejected"] = 3
        /\ ~reply[e]["ContentRejected"].ok

\* The rules of the request model that body b breaks, as the claim lists them.
MissingRequired(b) == {"product_id", "user_id", "content", "rating"} \ Fields(b)

ContentLengthOutOfRange(b) ==
    LET c == Get(b, <<"content">>)
    IN  c.t = "str" /\ (Length(c.s) < 10 \/ Length(c.s) > 5000)

RatingOutOfRange(b) ==
    LET r == Get(b, <<"rating">>)
    IN  r.t = "num" /\ (r.n < 1 \/ r.n > 5)

OutsideEnumeration(b) ==
    LET region == Get(b, <<"region">>)
        category == Get(b, <<"product_category">>)
        mode == Get(b, <<"compliance_mode">>)
    IN  \/ region.t = "str" /\ region.s \notin
              {"us-east-1", "us-west-2", "eu-west-1", "eu-central-1", "ap-southeast-1"}
        \/ category.t = "str" /\ category.s \notin
              {"electronics", "clothing", "books", "toys", "health", "food", "other"}
        \/ mode.t = "str" /\ mode.s \notin {"mild", "standard", "strict"}

ViolatesSchema(b) ==
    \/ MissingRequired(b) # {}
    \/ ContentLengthOutOfRange(b)
    \/ RatingOutOfRange(b)
    \/ OutsideEnumeration(b)

(* C25: request validation.  A submitted request whose body lacks           *)
(* product_id, user_id, content or rating, or has a content shorter than 10 *)
(* or longer than 5000 characters, a rating outside 1..5, or a region,      *)
(* product_category or compliance_mode outside its enumeration never starts *)
(* an execution (no thread of it ever leaves Pending, no task is invoked),  *)
(* and the only answer it ever gets is the validation error (status 400).   *)
C25_InvalidRequestRejected ==
    \A e \in Executions :
        ViolatesSchema(request[e].body) =>
            /\ \A t \in Threads : exec[e][t].status = "Pending"
            /\ \A s \in TaskStates : calls[e][s] = 0
            /\ answer[e] \in {NoAnswer, BadRequestBody}

C25_Witness ==
    \E e \in Executions :
        /\ ContentLengthOutOfRange(request[e].body)
        /\ answer[e] = BadRequestBody
        /\ answer[e].statusCode = 400

(***************************************************************************)
(* One execution run alone: the workflow interpreted from StartAt to the   *)
(* end in one go, each state handed the outcome the plan has for its       *)
(* function, the branches of a Parallel state one after the other, each    *)
(* from a copy of the Document.  Nothing of any other execution is read.   *)
(* The result is the final top-level thread and the invocations made.      *)
(***************************************************************************)
NewRun(th) == [th |-> th, calls |-> [s \in TaskStates |-> 0]]

\* One state of a run that is not a Parallel state.
SoloStep(e, plan, run) ==
    LET th == run.th
        st == States[th.current]
    IN  CASE st.Type = "Pass" ->
                [run EXCEPT !.th =
                    IF Resolvable(st.Parameters, th.doc)
                    THEN Complete(th, st, Merge(th.doc, ResultPathOf(st),
                                    Resolve(st.Parameters, th.doc, ContextObject(e))))
                    ELSE OnError(th, st, RuntimeError)]
          [] st.Type = "Choice" ->
                [run EXCEPT !.th =
                    IF ChoiceResolvable(st, th.doc)
                    THEN Enter(th, ChoiceNext(st, th.doc))
                    ELSE OnError(th, st, RuntimeError)]
          [] st.Type = "Task" ->
                IF th.waiting THEN [run EXCEPT !.th.waiting = FALSE]
                ELSE IF ~Resolvable(st.Parameters, th.doc)
                THEN [run EXCEPT !.th = OnError(th, st, RuntimeError)]
                ELSE LET out == plan[FunctionOf(th.current)]
                     IN  [th |-> IF out.ok
                                 THEN Complete(th, st,
                                        Merge(th.doc, ResultPathOf(st), out.result))
                                 ELSE OnError(th, st, out.error),
                          calls |-> [run.calls EXCEPT ![th.current] = @ + 1]]

RECURSIVE SoloRun(_, _, _)
SoloRun(e, plan, run) ==
    LET th == run.th
        st == States[th.current]
    IN  IF th.status # "Running" THEN run
        ELSE IF st.Type # "Parallel" THEN SoloRun(e, plan, SoloStep(e, plan, run))
        ELSE LET branch(i) ==
                     SoloRun(e, plan,
                         NewRun(Enter([NewThread EXCEPT !.status = "Running",
                                                        !.doc = th.doc],
                                      st.Branches[i].StartAt)))
                 failed == {i \in DOMAIN st.Branches : branch(i).th.status # "Succeeded"}
                 output == Arr([i \in DOMAIN st.Branches |-> branch(i).th.doc])
                 made == [s \in TaskStates |->
                            run.calls[s] + SumSeq([i \in DOMAIN st.Branches |->
                                                      branch(i).calls[s]])]
             IN  SoloRun(e, plan,
                     [th |-> IF failed = {}
                             THEN Complete(th, st, Merge(th.doc, ResultPathOf(st), output))
                             ELSE OnError(th, st,
                                    branch(CHOOSE i \in failed : TRUE).th.cause),
                      calls |-> made])

\* Execution e alone, on its own input, with the task results of the stub.
Alone(e) ==
    SoloRun(e, stub.plan,
        NewRun(Enter([NewThread EXCEPT !.status = "Running",
                                       !.doc = StartExecutionInput(request[e])],
                     StartAt)))

\* Everything the model holds about execution e.
PartOf(e) ==
    <<request[e], answer[e], exec[e], calls[e], waits[e], sent[e], reply[e], finished[e]>>

EndedAt(e, t, s) == exec[e][t].status = "Succeeded" /\ exec[e][t].current = s

\* The top level of execution e has evaluated state s: it has moved past it
\* or has failed in it.
Evaluated(e, s, before) ==
    \/ Started(e) /\ exec[e][Main].current \notin before \cup {s}
    \/ exec[e][Main].current = s /\ exec[e][Main].status = "Failed"

(* C27: analysis fallback.  When the ReviewAnalysis branch has ended at      *)
(* AnalysisError and PolicyValidation has been evaluated, the policy task    *)
(* has been invoked and the analysis_result of its payload is the high-risk  *)
(* default: toxicity_score, bias_score and hallucination_score all 10.       *)
C27_AnalysisFallback ==
    \A e \in Executions :
        (/\ EndedAt(e, 1, "AnalysisError")
         /\ Evaluated(e, "PolicyValidation", {"ValidateInput", "ProcessReview"}))
        => /\ calls[e]["PolicyValidation"] >= 1
           /\ \A k \in {"toxicity_score", "bias_score", "hallucination_score"} :
                 Get(sent[e]["PolicyValidation"], <<"analysis_result", k>>) = Num(10)

\* The last invocation of PolicyValidation failed and the state has been left:
\* every failure it does not retry is caught (States.ALL) and goes to
\* PolicyError.
PolicyFellBack(e) ==
    /\ calls[e]["PolicyValidation"] >= 1
    /\ ~reply[e]["PolicyValidation"].ok
    /\ exec[e][Main].current # "PolicyValidation"

(* C28: policy fallback.  When PolicyValidation has failed and its Catch has *)
(* routed to PolicyError, an execution that has run to its end (within the   *)
(* time bound) has stopped Succeeded at RejectedResponse, and its output has *)
(* policy_decision "DENIED", policy_reasons ["SYSTEM_ERROR"] and             *)
(* rejection_explanation "Policy validation failed - defaulting to deny".    *)
C28_PolicyFallback ==
    \A e \in Executions :
        (PolicyFellBack(e) /\ RanToEnd(e))
        => /\ exec[e][Main].status = "Succeeded"
           /\ exec[e][Main].current = "RejectedResponse"
           /\ Get(exec[e][Main].doc, <<"policy_decision">>) = Str("DENIED")
           /\ Get(exec[e][Main].doc, <<"policy_reasons">>) = Arr(<<Str("SYSTEM_ERROR")>>)
           /\ Get(exec[e][Main].doc, <<"rejection_explanation">>)
                = Str("Policy validation failed - defaulting to deny")

(* C29: summary fallback.  When the GenerateSummary branch has ended at      *)
(* SummaryError, an execution that has run to its end (within the time       *)
(* bound) has stopped Succeeded at SuccessResponse and the summary of its    *)
(* output is the fallback text "Summary generation failed".                  *)
C29_SummaryFallback ==
    \A e \in Executions :
        (EndedAt(e, 2, "SummaryError") /\ RanToEnd(e))
        => /\ exec[e][Main].status = "Succeeded"
           /\ exec[e][Main].current = "SuccessResponse"
           /\ Get(exec[e][Main].doc, <<"summary">>) = Str("Summary generation failed")

(* C30: audit_logged is truthful.  Whenever an execution has stopped         *)
(* Succeeded and its output has processing_metadata.audit_logged = true, an  *)
(* invocation of the audit logger by this execution returned successfully:   *)
(* the last invocation of LogApprovedAudit (at SuccessResponse) or of        *)
(* ContentRejected (at RejectedResponse) succeeded, so neither AuditLogError *)
(* nor the Catch edge of ContentRejected was taken.                          *)
C30_AuditLoggedTruthful ==
    \A e \in Executions :
        (/\ exec[e][Main].status = "Succeeded"
         /\ Get(exec[e][Main].doc, <<"processing_metadata", "audit_logged">>) = Bool(TRUE))
        => /\ reply[e][AuditStateOf(exec[e][Main].current)].ok
           /\ ~EndedAt(e, 3, "AuditLogError")
           /\ ~IsPresent(Get(exec[e][Main].doc, <<"audit_error">>))

(* C31: policy gate.  The summarizer task is invoked only in an execution    *)
(* in which PolicyValidation has returned successfully with decision         *)
(* "ALLOW": in every step that invokes it, and in every state in which it    *)
(* has been invoked, the last invocation of the policy task succeeded with   *)
(* that decision.  After PolicyError, or after any other decision, the       *)
(* summarizer is never invoked and the GenerateSummary branch never starts.  *)
C31_PolicyGate ==
    /\ [](\A e \in Executions :
            /\ (calls[e]["GenerateSummary"] >= 1 \/ exec[e][2].status # "Pending")
                  => /\ reply[e]["PolicyValidation"].ok
                     /\ DecisionReturned(e) = Str("ALLOW")
            /\ (PolicyFellBack(e)
                \/ (IsPresent(DecisionReturned(e)) /\ DecisionReturned(e) # Str("ALLOW")))
                  => /\ calls[e]["GenerateSummary"] = 0
                     /\ sent[e]["GenerateSummary"] = Absent)
    /\ [][\A e \in Executions :
            calls'[e]["GenerateSummary"] # calls[e]["GenerateSummary"]
                => /\ reply[e]["PolicyValidation"].ok
                   /\ DecisionReturned(e) = Str("ALLOW")
                   /\ FunctionOf("GenerateSummary") = "ai-compliance-review-summarizer"]_vars

\* The summarizer has been invoked twice after decision ALLOW and the
\* execution has gone on to SuccessResponse.
C31_Witness ==
    \E e \in Executions :
        /\ calls[e]["GenerateSummary"] >= 2
        /\ DecisionReturned(e) = Str("ALLOW")
        /\ exec[e][Main].current = "SuccessResponse"

\* The Task states that invoke the summarizer or the audit logger.
LastStage == {"GenerateSummary", "LogApprovedAudit", "ContentRejected"}

\* Task state s of execution e is invoked in this step.
Invoked(e, s) == calls'[e][s] # calls[e][s]

(* C32: pipeline order.  An invocation returns in the step that makes it.    *)
(* In every execution, the review auditor is invoked only while neither the  *)
(* policy validator nor the summarizer nor the audit logger has been         *)
(* invoked; the policy validator is invoked only when the ReviewAnalysis     *)
(* branch has ended, after at least one auditor invocation, and while        *)
(* neither the summarizer nor the audit logger has been invoked; the         *)
(* summarizer and the audit logger are invoked only after the policy         *)
(* validator has returned successfully and the top level has left            *)
(* PolicyValidation.  Between the summarizer and the audit logger of         *)
(* ContentApproved no order is imposed.                                      *)
C32_PipelineOrder ==
    [][\A e \in Executions :
        /\ Invoked(e, "ReviewAnalysis")
              => \A s \in {"PolicyValidation"} \cup LastStage : calls[e][s] = 0
        /\ Invoked(e, "PolicyValidation")
              => /\ calls[e]["ReviewAnalysis"] >= 1
                 /\ exec[e][1].status = "Succeeded"
                 /\ \A s \in LastStage : calls[e][s] = 0
        /\ \A s \in LastStage :
              Invoked(e, s)
                  => /\ calls[e]["PolicyValidation"] >= 1
                     /\ reply[e]["PolicyValidation"].ok
                     /\ exec[e][Main].current \notin
                          {"ValidateInput", "ProcessReview", "PolicyValidation"}]_vars

\* The audit logger of ContentApproved has been invoked before the
\* summarizer, the reverse of the order the branches are declared in.
C32_Witness ==
    \E e \in Executions :
        /\ calls[e]["LogApprovedAudit"] >= 1
        /\ calls[e]["GenerateSummary"] = 0
        /\ calls[e]["ReviewAnalysis"] >= 2
        /\ calls[e]["PolicyValidation"] >= 2

ResponseStates == {"SuccessResponse", "RejectedResponse"}

(* C33: the two response forms.  The output of every Succeeded execution    *)
(* has statusCode 200 and is either result "SUCCESS" with policy_decision   *)
(* "APPROVED" (the execution ended at SuccessResponse) or result "REJECTED" *)
(* with policy_decision "DENIED" (it ended at RejectedResponse); it is the  *)
(* APPROVED form exactly when the decision CheckPolicyDecision saw, the one *)
(* the policy task returned, is "ALLOW".  No execution evaluates both       *)
(* response states: a top level that is at one of them stays there, and a   *)
(* Succeeded execution is at exactly one.                                   *)
C33_ResponseForms ==
    /\ [](\A e \in Executions :
            exec[e][Main].status = "Succeeded" =>
                LET out == exec[e][Main].doc
                    approved == /\ Get(out, <<"result">>) = Str("SUCCESS")
                                /\ Get(out, <<"policy_decision">>) = Str("APPROVED")
                                /\ exec[e][Main].current = "SuccessResponse"
                    rejected == /\ Get(out, <<"result">>) = Str("REJECTED")
                                /\ Get(out, <<"policy_decision">>) = Str("DENIED")
                                /\ exec[e][Main].current = "RejectedResponse"
                IN  /\ Get(out, <<"statusCode">>) = Num(200)
                    /\ approved \/ rejected
                    /\ approved <=> DecisionReturned(e) = Str("ALLOW"))
    /\ [][\A e \in Executions :
            /\ exec[e][Main].current \in ResponseStates
                  => exec'[e][Main].current = exec[e][Main].current
            /\ (exec[e][Main].current = "CheckPolicyDecision"
                /\ exec'[e][Main].current # "CheckPolicyDecision")
                  => Get(exec[e][Main].doc, DecisionPath) = DecisionReturned(e)]_vars

\* A rejected response after a decision that is neither ALLOW nor DENY.
C33_Witness ==
    \E e \in Executions :
        /\ exec[e][Main].status = "Succeeded"
        /\ Get(exec[e][Main].doc, <<"policy_decision">>) = Str("DENIED")
        /\ DecisionReturned(e) = Str("REVIEW")

\* The last invocation of Task state s failed with a class no Retry rule lists.
FailedForGood(e, s) ==
    /\ calls[e][s] >= 1
    /\ ~reply[e][s].ok
    /\ ErrorClassOf(reply[e][s].error) \notin LambdaTransient

(* C34 as stated: when an invocation of a Task state has failed with a class *)
(* other than Lambda.ServiceException, Lambda.AWSLambdaException and         *)
(* Lambda.SdkClientException, the task has been invoked exactly once for     *)
(* that state and no backoff wait has been made.                             *)
C34_InvokedExactlyOnce ==
    \A e \in Executions : \A s \in TaskStates :
        FailedForGood(e, s) => calls[e][s] = 1 /\ waits[e][s] = <<>>

(* C34 amended: a failure of such a class is never retried.  In the step in  *)
(* which it is returned no backoff wait is made and the thread goes, Running *)
(* and not waiting, to the target of the state's States.ALL Catch rule with  *)
(* the error recorded at the rule's ResultPath; the state is never invoked   *)
(* again.  The invocations of the state are one more than the waits made     *)
(* for earlier failures of a retried class: exactly one when the failure is  *)
(* the first.                                                                *)
C34_NeverRetried ==
    /\ [](\A e \in Executions : \A s \in TaskStates :
            FailedForGood(e, s)
                => /\ calls[e][s] = Len(waits[e][s]) + 1
                   /\ \A t \in Threads :
                         exec[e][t].current = s => exec[e][t].status = "TimedOut")
    /\ [][\A e \in Executions : \A s \in TaskStates :
            /\ FailedForGood(e, s) => calls'[e][s] = calls[e][s]
            /\ (Invoked(e, s) /\ FailedForGood(e, s)')
                  => /\ waits'[e][s] = waits[e][s]
                     /\ \A t \in Threads :
                           (Running(e, t) /\ exec[e][t].current = s)
                               => LET rule == CatchOf(States[s])[1]
                                      th == exec'[e][t]
                                  IN  /\ "States.ALL" \in rule.ErrorEquals
                                      /\ th.status = "Running"
                                      /\ th.current = rule.Next
                                      /\ ~th.waiting
                                      /\ Get(th.doc, ResultPathOf(rule))
                                           = reply'[e][s].error]_vars

\* A failure that is not retried after one that was: two invocations, one wait.
C34_Witness ==
    \E e \in Executions :
        /\ FailedForGood(e, "ContentRejected")
        /\ calls[e]["ContentRejected"] = 2
        /\ waits[e]["ContentRejected"] = <<1>>
        /\ exec[e][Main].current = "RejectedResponse"

\* The input document execution e was started with.
InputOf(e) == StartExecutionInput(request[e])

(* C35: in every execution that has stopped Succeeded, whatever path it     *)
(* took (the Catch paths included), review_id and product_id of the final   *)
(* output are present and equal review_id and product_id of the input       *)
(* document.                                                                *)
C35_IdentifiersPreserved ==
    \A e \in Executions :
        exec[e][Main].status = "Succeeded"
        => \A f \in {<<"review_id">>, <<"product_id">>} :
              /\ IsPresent(Get(InputOf(e), f))
              /\ Get(exec[e][Main].doc, f) = Get(InputOf(e), f)

\* A Succeeded execution through a Catch path: its approved audit record could
\* not be written, and the output still carries the identifiers of the input.
C35_Witness ==
    /\ \E e \in Executions :
          /\ exec[e][Main].status = "Succeeded"
          /\ exec[e][Main].current = "SuccessResponse"
          /\ calls[e]["LogApprovedAudit"] >= 1
          /\ ~reply[e]["LogApprovedAudit"].ok
          /\ Get(exec[e][Main].doc, <<"product_id">>) = Get(InputOf(e), <<"product_id">>)
          /\ Get(exec[e][Main].doc, <<"review_id">>) = Str(request[e].id)

\* The input document of execution e holds all eight request fields.
HoldsRequestFields(e) ==
    \A f \in {"review_id", "product_id", "user_id", "content", "rating", "region",
               "product_category", "compliance_mode"} :
        IsPresent(Get(InputOf(e), <<f>>))

(* C36: in an execution whose input document holds all eight request        *)
(* fields, whenever a thread is about to evaluate a Pass or Task state, on  *)
(* a success path or after a Catch, every path reference in the state's     *)
(* Parameters resolves in the thread's Document.                            *)
C36_ParametersResolve ==
    \A e \in Executions : \A t \in Threads :
        (/\ HoldsRequestFields(e)
         /\ Running(e, t)
         /\ States[exec[e][t].current].Type \in {"Pass", "Task"})
        => Resolvable(States[exec[e][t].current].Parameters, exec[e][t].doc)

(* C37: with every invocation returning within its function's timeout       *)
(* (5, 2, 5 and 3 minutes) and the retry waits of the workflow, the longest *)
(* an execution can have been running never exceeds the 15 minutes of the   *)
(* state machine's timeout, and no execution is ever TimedOut.              *)
C37_WithinTimeBound ==
    \A e \in Executions :
        Started(e) => ElapsedAtMost(e) <= TimeoutSeconds /\ ~TimedOut(e)

(* C38: with every invocation eventually returning and the service taking   *)
(* every step it can, every execution that was started eventually reaches a *)
(* terminal status (Succeeded, Failed or TimedOut): no execution evaluates  *)
(* states or retries forever.                                               *)
C38_Terminates ==
    \A e \in ExecutionIds : Started(e) ~> (e \in Executions /\ Stopped(e))

\* An execution that has stopped after the longest chain of retries: the
\* policy validator failed on all four invocations, three waits between them.
C38_Witness ==
    \E e \in Executions :
        /\ Stopped(e)
        /\ \A t \in Threads : ~Running(e, t)
        /\ calls[e]["PolicyValidation"] = 4
        /\ waits[e]["PolicyValidation"] = <<2, 4, 8>>
        /\ FailedTransient(e, "PolicyValidation")
        /\ ~TimedOut(e)

=============================================================================
